---- MODULE Spec2Model ----
(***************************************************************************)
(* The Markdown <-> Confluence Storage Format converter of acon            *)
(* (internal/converter).                                                   *)
(*                                                                         *)
(* Text is a sequence of lexemes.  Every character that some pattern of    *)
(* the converter looks at is a lexeme of its own: < > / " & ; \ _ [ ] ( )  *)
(* * backtick # - + . ! | { } = blank, newline, each digit and each letter of     *)
(* running text.  A run of characters no pattern can split (a tag or       *)
(* attribute name, an entity name, a language name) is one word lexeme.    *)
(* A literal of a Go pattern is the sequence of its lexemes.               *)
(***************************************************************************)
EXTENDS Integers, Sequences, FiniteSets, TLC

VARIABLES call, doc, storage, ret, procs, frames, pkg, client

vars == <<call, doc, storage, ret, procs, frames, pkg, client>>

----------------------------------------------------------------------------
(* Lexeme classes                                                          *)

\* Words made of ASCII letters only: [a-zA-Z]+ matches each of them whole.
AlphaWords ==
    {"a", "b", "c", "x", "X", "go", "lt", "gt", "amp", "quot", "p", "ul", "li",
     "pre", "code", "em", "img", "div", "CDATA", "none", "complete",
     "incomplete", "language", "title", "T", "u", "done", "blockquote", "ol",
     "hr", "br", "strong", "table", "tbody", "tr", "th", "td", "del", "left",
     "right", "center", "info", "page", "collapse", "linenumbers", "true"}

Digits == {"1", "2"}

\* Tag names: they start and end with a letter and hold ':' or '-' inside.
TagWords ==
    {"ac:structured-macro", "ac:parameter", "ac:plain-text-body",
     "ac:task-list", "ac:task", "ac:task-id", "ac:task-status",
     "ac:task-body", "ac:image", "ri:url", "ri:attachment", "ac:rich-text-body",
     "h1", "h2"}

\* Attribute names written together with their '=' sign.
AttrWords ==
    {"ac:name=", "ri:value=", "ri:filename=", "class=", "src=", "alt=",
     "ac:schema-version=", "ac:align=", "href=", "title=", "align="}

AlnumStart(l) == l \in AlphaWords \cup Digits \cup TagWords \cup AttrWords
AlnumEnd(l) == l \in AlphaWords \cup Digits \cup TagWords
IsAlpha(l) == l \in AlphaWords
IsDigit(l) == l \in Digits
\* [ \t]
IsBlank(l) == l \in {" ", "\t"}
\* \s
IsSpace(l) == l \in {" ", "\t", "\n"}
\* a lexeme of more than one character
MultiChar(l) ==
    l \in (AlphaWords \ {"a", "b", "c", "x", "X", "p", "T", "u"}) \cup TagWords \cup AttrWords

----------------------------------------------------------------------------
(* Go's strings and regexp primitives on lexeme sequences                  *)

RECURSIVE Cat(_)
Cat(ss) == IF ss = <<>> THEN <<>> ELSE Head(ss) \o Cat(Tail(ss))

StartsAt(s, i, lit) ==
    /\ i >= 1
    /\ i + Len(lit) - 1 <= Len(s)
    /\ \A k \in 1..Len(lit) : s[i + k - 1] = lit[k]

\* the text from position i to the end
From(s, i) == SubSeq(s, i, Len(s))

\* strings.Contains
Contains(s, lit) == \E i \in 1..Len(s) : StartsAt(s, i, lit)

\* the least position >= i where lit starts, 0 when there is none
IndexFrom(s, i, lit) ==
    LET hits == {j \in i..Len(s) : StartsAt(s, j, lit)}
    IN  IF hits = {} THEN 0 ELSE CHOOSE j \in hits : \A k \in hits : j <= k

\* the least of a non-empty set of positions: where a scan from the left
\* finds its next match
Least(hits) == CHOOSE j \in hits : \A k \in hits : j <= k

RECURSIVE ReplaceFrom(_, _, _, _)
ReplaceFrom(s, i, old, new) ==
    LET j == IndexFrom(s, i, old)
    IN  IF j = 0 THEN From(s, i)
        ELSE SubSeq(s, i, j - 1) \o new \o ReplaceFrom(s, j + Len(old), old, new)

\* strings.ReplaceAll for a non-empty old: leftmost matches, not overlapping
ReplaceAll(s, old, new) ==
    IF Contains(s, old) THEN ReplaceFrom(s, 1, old, new) ELSE s

\* strings.TrimSpace
RECURSIVE TrimLeft(_)
TrimLeft(s) == IF s # <<>> /\ IsSpace(Head(s)) THEN TrimLeft(Tail(s)) ELSE s
RECURSIVE TrimRight(_)
TrimRight(s) ==
    IF s # <<>> /\ IsSpace(s[Len(s)]) THEN TrimRight(SubSeq(s, 1, Len(s) - 1)) ELSE s
TrimSpace(s) == TrimRight(TrimLeft(s))

\* strings.TrimPrefix, strings.TrimSuffix
TrimPrefix(s, lit) == IF StartsAt(s, 1, lit) THEN From(s, Len(lit) + 1) ELSE s
TrimSuffix(s, lit) ==
    IF Len(s) >= Len(lit) /\ StartsAt(s, Len(s) - Len(lit) + 1, lit)
    THEN SubSeq(s, 1, Len(s) - Len(lit)) ELSE s

\* the first position >= i whose lexeme fails P; Len(s)+1 when all pass
RECURSIVE SkipSpace(_, _)
SkipSpace(s, i) == IF i <= Len(s) /\ IsSpace(s[i]) THEN SkipSpace(s, i + 1) ELSE i
RECURSIVE SkipBlank(_, _)
SkipBlank(s, i) == IF i <= Len(s) /\ IsBlank(s[i]) THEN SkipBlank(s, i + 1) ELSE i
RECURSIVE SkipAlpha(_, _)
SkipAlpha(s, i) == IF i <= Len(s) /\ IsAlpha(s[i]) THEN SkipAlpha(s, i + 1) ELSE i
RECURSIVE SkipDigits(_, _)
SkipDigits(s, i) == IF i <= Len(s) /\ IsDigit(s[i]) THEN SkipDigits(s, i + 1) ELSE i
\* [^x]*: up to the first lexeme x
RECURSIVE SkipNot(_, _, _)
SkipNot(s, i, x) == IF i <= Len(s) /\ s[i] # x THEN SkipNot(s, i + 1, x) ELSE i

----------------------------------------------------------------------------
(* html.UnescapeString                                                     *)

EntityChar(name) ==
    CASE name = "lt" -> "<"
      [] name = "gt" -> ">"
      [] name = "amp" -> "&"
      [] name = "quot" -> "\""

EntityNames == {"lt", "gt", "amp", "quot"}

\* &name; and the legacy form &name without the semicolon both decode
EntityAt(s, j) == s[j] = "&" /\ j + 1 <= Len(s) /\ s[j + 1] \in EntityNames

RECURSIVE UnescapeFrom(_, _)
UnescapeFrom(s, i) ==
    LET hits == {j \in i..Len(s) : EntityAt(s, j)}
        j == Least(hits)
    IN  IF hits = {} THEN From(s, i)
        ELSE SubSeq(s, i, j - 1) \o <<EntityChar(s[j + 1])>>
             \o UnescapeFrom(s, IF j + 2 <= Len(s) /\ s[j + 2] = ";" THEN j + 3 ELSE j + 2)

UnescapeString(s) == UnescapeFrom(s, 1)

----------------------------------------------------------------------------
(* The escape and spacing normalizer                                       *)

\* The backtick character: SANY cannot read a backtick inside a string.
Backtick == "BACKTICK"

Fence == <<Backtick, Backtick, Backtick>>

\* codeBlockRegex at position i: the end of the match (exclusive), 0 if none.
\* (?s)```[a-zA-Z]*\n.*?\n>? ?```
CodeBlockCloseAt(s, j) ==
    IF j > Len(s) \/ s[j] # "\n" THEN 0
    ELSE LET a == IF j + 1 <= Len(s) /\ s[j + 1] = ">" THEN j + 2 ELSE j + 1
             b == IF a <= Len(s) /\ s[a] = " " THEN a + 1 ELSE a
         IN  IF StartsAt(s, b, Fence) THEN b + 3
             ELSE 0

CodeBlockMatchAt(s, i) ==
    IF ~StartsAt(s, i, Fence) THEN 0
    ELSE LET k == SkipAlpha(s, i + 3)
         IN  IF k > Len(s) \/ s[k] # "\n" THEN 0
             ELSE LET ends == {j \in (k + 1)..Len(s) : CodeBlockCloseAt(s, j) # 0}
                  IN  IF ends = {} THEN 0
                      ELSE CodeBlockCloseAt(s, CHOOSE j \in ends : \A m \in ends : j <= m)

\* FindAllStringIndex: <<start, end>> pairs, end exclusive, not overlapping
RECURSIVE CodeBlocksFrom(_, _)
CodeBlocksFrom(s, i) ==
    LET hits == {j \in i..Len(s) : CodeBlockMatchAt(s, j) # 0}
        j == Least(hits)
        e == CodeBlockMatchAt(s, j)
    IN  IF hits = {} THEN <<>> ELSE <<<<j, e>>>> \o CodeBlocksFrom(s, e)

CodeBlocks(s) == CodeBlocksFrom(s, 1)

tripleEscapeChars == <<"*", "_", Backtick, "[", "(", "|">>
doubleEscapeChars ==
    <<"*", "_", Backtick, "[", "]", "#", "-", "+", ".", "!", "|", "(", ")", "}", "<", ">">>

RECURSIVE FixTriple(_, _)
FixTriple(text, k) ==
    LET replaced == ReplaceAll(text, <<"\\", "\\", "\\", tripleEscapeChars[k]>>,
                               <<"\\", tripleEscapeChars[k]>>)
    IN  IF k > Len(tripleEscapeChars) THEN text
        ELSE IF replaced = text THEN FixTriple(text, k + 1)
        ELSE FixTriple(replaced, k + 1)

RECURSIVE FixDouble(_, _)
FixDouble(text, k) ==
    LET replaced == ReplaceAll(text, <<"\\", "\\", doubleEscapeChars[k]>>,
                               <<"\\", doubleEscapeChars[k]>>)
    IN  IF k > Len(doubleEscapeChars) THEN text
        ELSE IF replaced = text THEN FixDouble(text, k + 1)
        ELSE FixDouble(replaced, k + 1)

\* a variant of fixEscapesInText: the double pass runs before the triple pass
fixEscapesInText_DoubleFirst(text) == FixTriple(FixDouble(text, 1), 1)

fixEscapesInText(text) == FixDouble(FixTriple(text, 1), 1)

RECURSIVE FixBetween(_, _, _)
FixBetween(markdown, matches, lastEnd) ==
    IF matches = <<>>
    THEN IF lastEnd <= Len(markdown) THEN fixEscapesInText(From(markdown, lastEnd)) ELSE <<>>
    ELSE LET start == Head(matches)[1]
             end == Head(matches)[2]
         IN  (IF start > lastEnd
              THEN fixEscapesInText(SubSeq(markdown, lastEnd, start - 1)) ELSE <<>>)
             \o SubSeq(markdown, start, end - 1)
             \o FixBetween(markdown, Tail(matches), end)

\* a variant of fixOverEscaping: the whole text is processed, code blocks too
fixOverEscaping_WholeText(markdown) == fixEscapesInText(markdown)

fixOverEscaping(markdown) ==
    LET matches == CodeBlocks(markdown)
    IN  IF matches = <<>> THEN fixEscapesInText(markdown)
        ELSE FixBetween(markdown, matches, 1)

\* intraWordUnderscoreRegex ([a-zA-Z0-9])\\_([a-zA-Z0-9]) at position i
IntraWordAt(s, i) ==
    /\ i + 3 <= Len(s)
    /\ AlnumEnd(s[i])
    /\ s[i + 1] = "\\"
    /\ s[i + 2] = "_"
    /\ AlnumStart(s[i + 3])

HasIntraWord(s) == \E i \in 1..Len(s) : IntraWordAt(s, i)

\* ReplaceAllString(markdown, "${1}_${2}"): one pass.  The match takes one
\* character of the word after the underscore, so the rest of a longer word
\* can open the next match.
RECURSIVE UnderscorePass(_, _)
UnderscorePass(s, i) ==
    LET hits == {j \in i..Len(s) : IntraWordAt(s, j)}
        j == Least(hits)
    IN  IF hits = {} THEN From(s, i)
        ELSE SubSeq(s, i, j - 1) \o <<s[j], "_">>
             \o (IF MultiChar(s[j + 3]) THEN UnderscorePass(s, j + 3)
                 ELSE <<s[j + 3]>> \o UnderscorePass(s, j + 4))

\* a variant of UnderscoreLoop: one replacement pass in place of the loop
UnderscoreLoop_OnePass(s, n) ==
    IF HasIntraWord(s) THEN [md |-> UnderscorePass(s, 1), iterations |-> n + 1]
    ELSE [md |-> s, iterations |-> n]

\* for intraWordUnderscoreRegex.MatchString(markdown) { ... }
RECURSIVE UnderscoreLoop(_, _)
UnderscoreLoop(s, n) ==
    IF HasIntraWord(s) THEN UnderscoreLoop(UnderscorePass(s, 1), n + 1)
    ELSE [md |-> s, iterations |-> n]

\* nestedListBlankLineRegex (\n)([ \t]+)\n([ \t]+[-*]|[ \t]+\d+\.) at i:
\* <<start of group 3, end of the match (exclusive)>>, <<0, 0>> if none
NestedBlankAt(s, i) ==
    IF i > Len(s) \/ s[i] # "\n" THEN <<0, 0>>
    ELSE LET k == SkipBlank(s, i + 1)
         IN  IF k = i + 1 \/ k > Len(s) \/ s[k] # "\n" THEN <<0, 0>>
             ELSE LET m == SkipBlank(s, k + 1)
                      d == SkipDigits(s, m)
                  IN  IF m = k + 1 \/ m > Len(s) THEN <<0, 0>>
                      ELSE IF s[m] \in {"-", "*"} THEN <<k + 1, m + 1>>
                      ELSE IF d > m /\ d <= Len(s) /\ s[d] = "." THEN <<k + 1, d + 1>>
                      ELSE <<0, 0>>

RECURSIVE NestedSpacingFrom(_, _)
NestedSpacingFrom(s, i) ==
    LET hits == {j \in i..Len(s) : NestedBlankAt(s, j)[1] # 0}
        j == Least(hits)
        m == NestedBlankAt(s, j)
    IN  IF hits = {} THEN From(s, i)
        ELSE SubSeq(s, i, j - 1) \o <<"\n">> \o SubSeq(s, m[1], m[2] - 1)
             \o NestedSpacingFrom(s, m[2])

fixNestedListSpacing(markdown) == NestedSpacingFrom(markdown, 1)

\* storage.go 225-228: the three checkbox replacements
fixCheckboxes(markdown) ==
    ReplaceAll(ReplaceAll(ReplaceAll(markdown,
        <<"\\", "[", " ", "]">>, <<"[", " ", "]">>),
        <<"\\", "[", "x", "]">>, <<"[", "x", "]">>),
        <<"\\", "[", "X", "]">>, <<"[", "x", "]">>)

----------------------------------------------------------------------------
(* The macro preprocessor: the patterns of storage.go 93-120                *)

Tag(name) == <<"<", name, ">">>
EndTag(name) == <<"<", "/", name, ">">>
Attr(name, value) == <<name, "\"">> \o value \o <<"\"">>

NameCode == Attr("ac:name=", <<"code">>)
NameLanguage == Attr("ac:name=", <<"language">>)
CDataOpen == <<"<", "!", "[", "CDATA", "[">>
CDataClose == <<"]", "]", ">">>
PlainBodyOpen == Tag("ac:plain-text-body") \o CDataOpen
PlainBodyClose == CDataClose \o EndTag("ac:plain-text-body")

\* <name[^>]*attr[^>]*> at i: the position after the tag's '>', 0 if none.
\* With attr = <<>> this is <name[^>]*>.
OpenTagWith(s, i, name, attr) ==
    IF ~StartsAt(s, i, <<"<", name>>) THEN 0
    ELSE LET g == SkipNot(s, i + 2, ">")
         IN  IF g > Len(s) THEN 0
             ELSE IF \E q \in (i + 2)..g : q + Len(attr) <= g /\ StartsAt(s, q, attr)
                  THEN g + 1 ELSE 0

\* <ac:parameter[^>]*>[^<]*</ac:parameter>\s* at i: the end, 0 if none
ParamAt(s, i) ==
    LET g == OpenTagWith(s, i, "ac:parameter", <<>>)
        h == SkipNot(s, g, "<")
    IN  IF g = 0 THEN 0
        ELSE IF StartsAt(s, h, EndTag("ac:parameter")) THEN SkipSpace(s, h + 4)
        ELSE 0

\* (?:<ac:parameter ...</ac:parameter>\s*)* from i: the end of the last one
RECURSIVE ParamsEnd(_, _)
ParamsEnd(s, i) == IF ParamAt(s, i) # 0 THEN ParamsEnd(s, ParamAt(s, i)) ELSE i

NoMatch == [end |-> 0]

\* codeMacroRegex at i: end (exclusive), group 1 (params), group 2 (code)
CodeMacroAt(s, i) ==
    LET o == OpenTagWith(s, i, "ac:structured-macro", NameCode)
        ps == SkipSpace(s, o)
        pe == ParamsEnd(s, ps)
        bs == pe + Len(PlainBodyOpen)
        tails == {j \in bs..Len(s) :
                     /\ StartsAt(s, j, PlainBodyClose)
                     /\ StartsAt(s, SkipSpace(s, j + Len(PlainBodyClose)),
                                 EndTag("ac:structured-macro"))}
        be == CHOOSE j \in tails : \A m \in tails : j <= m
    IN  IF o = 0 \/ ~StartsAt(s, pe, PlainBodyOpen) \/ tails = {} THEN NoMatch
        ELSE [end |-> SkipSpace(s, be + Len(PlainBodyClose)) + 4,
              params |-> SubSeq(s, ps, pe - 1),
              code |-> SubSeq(s, bs, be - 1)]

\* emptyCodeMacroRegex at i: end (exclusive), group 1 (params)
EmptyCodeMacroAt(s, i) ==
    LET o == OpenTagWith(s, i, "ac:structured-macro", NameCode)
        ps == SkipSpace(s, o)
        pe == ParamsEnd(s, ps)
    IN  IF o = 0 \/ ~StartsAt(s, pe, EndTag("ac:structured-macro")) THEN NoMatch
        ELSE [end |-> pe + 4, params |-> SubSeq(s, ps, pe - 1)]

\* a variant of LanguageAt: the value of a parameter of any name
LanguageAt_AnyName(params, i) ==
    LET g == OpenTagWith(params, i, "ac:parameter", <<>>)
        h == SkipNot(params, g, "<")
    IN  IF g = 0 \/ ~StartsAt(params, h, EndTag("ac:parameter")) THEN NoMatch
        ELSE [end |-> h + 4, value |-> SubSeq(params, g, h - 1)]

\* languageRegex at i of the params: the captured value, or NoMatch
LanguageAt(params, i) ==
    LET g == OpenTagWith(params, i, "ac:parameter", NameLanguage)
        h == SkipNot(params, g, "<")
    IN  IF g = 0 \/ ~StartsAt(params, h, EndTag("ac:parameter")) THEN NoMatch
        ELSE [end |-> h + 4, value |-> SubSeq(params, g, h - 1)]

\* the language as captured, white space and all
LanguageOf_Untrimmed(params) ==
    LET hits == {i \in 1..Len(params) : LanguageAt(params, i).end # 0}
    IN  IF hits = {} THEN <<>>
        ELSE LanguageAt(params, CHOOSE i \in hits : \A k \in hits : i <= k).value

\* storage.go 132-136: the language of the leftmost language parameter
LanguageOf(params) ==
    LET hits == {i \in 1..Len(params) : LanguageAt(params, i).end # 0}
    IN  IF hits = {} THEN <<>>
        ELSE TrimSpace(LanguageAt(params, CHOOSE i \in hits : \A k \in hits : i <= k).value)

\* storage.go 138-140
EscapeAngle(code) ==
    ReplaceAll(ReplaceAll(code, <<"<">>, <<"&", "lt", ";">>), <<">">>, <<"&", "gt", ";">>)

\* storage.go 142-146 and 163-167
PreCode(language, code) ==
    (IF language # <<>>
     THEN <<"<", "pre", ">", "<", "code", " ">>
          \o Attr("class=", <<"language", "-">> \o language) \o <<">">>
     ELSE Tag("pre") \o Tag("code"))
    \o code \o EndTag("code") \o EndTag("pre")

\* storage.go 124-147
RECURSIVE RewriteCodeMacros(_, _)
RewriteCodeMacros(s, i) ==
    LET hits == {j \in i..Len(s) : CodeMacroAt(s, j).end # 0}
        j == Least(hits)
        m == CodeMacroAt(s, j)
    IN  IF hits = {} THEN From(s, i)
        ELSE SubSeq(s, i, j - 1) \o PreCode(LanguageOf(m.params), EscapeAngle(m.code))
             \o RewriteCodeMacros(s, m.end)

\* storage.go 150-168
RECURSIVE RewriteEmptyCodeMacros(_, _)
RewriteEmptyCodeMacros(s, i) ==
    LET hits == {j \in i..Len(s) : EmptyCodeMacroAt(s, j).end # 0}
        j == Least(hits)
        m == EmptyCodeMacroAt(s, j)
    IN  IF hits = {} THEN From(s, i)
        ELSE SubSeq(s, i, j - 1) \o PreCode(LanguageOf(m.params), <<>>)
             \o RewriteEmptyCodeMacros(s, m.end)

\* taskListRegex at i: end (exclusive) and group 1
TaskListAt(s, i) ==
    LET j == IndexFrom(s, i + 3, EndTag("ac:task-list"))
    IN  IF ~StartsAt(s, i, Tag("ac:task-list")) \/ j = 0 THEN NoMatch
        ELSE [end |-> j + 4, content |-> SubSeq(s, i + 3, j - 1)]

\* taskRegex at i: end (exclusive), group 1 (status), group 2 (body)
TaskAt(c, i) ==
    LET a == SkipSpace(c, i + 3)
        h == SkipNot(c, a + 3, "<")
        b == SkipSpace(c, h + 4)
        tails == {j \in (b + 3)..Len(c) :
                     /\ StartsAt(c, j, EndTag("ac:task-body"))
                     /\ StartsAt(c, SkipSpace(c, j + 4), EndTag("ac:task"))}
        be == CHOOSE j \in tails : \A m \in tails : j <= m
    IN  IF \/ ~StartsAt(c, i, Tag("ac:task"))
           \/ ~StartsAt(c, a, Tag("ac:task-status"))
           \/ ~StartsAt(c, h, EndTag("ac:task-status"))
           \/ ~StartsAt(c, b, Tag("ac:task-body"))
           \/ tails = {}
        THEN NoMatch
        ELSE [end |-> SkipSpace(c, be + 4) + 4,
              status |-> SubSeq(c, a + 3, h - 1),
              body |-> SubSeq(c, b + 3, be - 1)]

\* FindAllStringSubmatch(taskListContent, -1)
RECURSIVE TasksFrom(_, _)
TasksFrom(c, i) ==
    LET hits == {j \in i..Len(c) : TaskAt(c, j).end # 0}
        m == TaskAt(c, Least(hits))
    IN  IF hits = {} THEN <<>> ELSE <<m>> \o TasksFrom(c, m.end)

\* storage.go 188-200: one task as a list item
TaskItem(task) ==
    LET status == TrimSpace(task.status)
        body == TrimSpace(TrimSuffix(TrimPrefix(TrimSpace(task.body), Tag("p")),
                                     EndTag("p")))
    IN  Tag("li")
        \o (IF status = <<"complete">> THEN <<"[", "x", "]", " ">> ELSE <<"[", " ", "]", " ">>)
        \o body \o EndTag("li") \o <<"\n">>

RECURSIVE TaskItems(_)
TaskItems(tasks) ==
    IF tasks = <<>> THEN <<>> ELSE TaskItem(Head(tasks)) \o TaskItems(Tail(tasks))

\* storage.go 171-204
RECURSIVE RewriteTaskLists(_, _)
RewriteTaskLists(s, i) ==
    LET hits == {j \in i..Len(s) : TaskListAt(s, j).end # 0}
        j == Least(hits)
        m == TaskListAt(s, j)
    IN  IF hits = {} THEN From(s, i)
        ELSE SubSeq(s, i, j - 1)
             \o Tag("ul") \o <<"\n">> \o TaskItems(TasksFrom(m.content, 1)) \o EndTag("ul")
             \o RewriteTaskLists(s, m.end)

\* imageRegex at i: end (exclusive) and group 1 (the URL)
ImageAt(s, i) ==
    LET g == OpenTagWith(s, i, "ac:image", <<>>)
        a == SkipSpace(s, g)
        b == SkipSpace(s, a + 2)
        q == SkipNot(s, b + 2, "\"")
        r == SkipNot(s, q + 1, "/")
        c == SkipSpace(s, r + 2)
    IN  IF \/ g = 0
           \/ ~StartsAt(s, a, <<"<", "ri:url">>)
           \/ b = a + 2
           \/ ~StartsAt(s, b, <<"ri:value=", "\"">>)
           \/ q > Len(s)
           \/ ~StartsAt(s, r, <<"/", ">">>)
           \/ ~StartsAt(s, c, EndTag("ac:image"))
        THEN NoMatch
        ELSE [end |-> c + 4, url |-> SubSeq(s, b + 2, q - 1)]

\* storage.go 207-215
RECURSIVE RewriteImages(_, _)
RewriteImages(s, i) ==
    LET hits == {j \in i..Len(s) : ImageAt(s, j).end # 0}
        j == Least(hits)
        m == ImageAt(s, j)
    IN  IF hits = {} THEN From(s, i)
        ELSE SubSeq(s, i, j - 1)
             \o <<"<", "img", " ">> \o Attr("src=", m.url) \o <<" ">>
             \o Attr("alt=", <<>>) \o <<" ", "/", ">">>
             \o RewriteImages(s, m.end)

codeRewrite(s) == RewriteCodeMacros(s, 1)
emptyCodeRewrite(s) == RewriteEmptyCodeMacros(s, 1)
taskListRewrite(s) == RewriteTaskLists(s, 1)
imageRewrite(s) == RewriteImages(s, 1)

\* a variant of Preprocess: the image rewrite runs first
Preprocess_ImagesFirst(s) ==
    taskListRewrite(emptyCodeRewrite(codeRewrite(imageRewrite(s))))

\* storage.go 124-215: the four rewrites in the order the function applies them
Preprocess(s) == imageRewrite(taskListRewrite(emptyCodeRewrite(codeRewrite(s))))

----------------------------------------------------------------------------
(* The AST the Markdown parser hands to the renderer                       *)

\* One node: its kind, an attribute (level, alignment, checked, ordered,
\* line break), the source bytes of its segment or lines (t), a second value
\* (u: the language of a fence, the title of a link) and its children.
Node(kind, a, t, u, kids) == [kind |-> kind, a |-> a, t |-> t, u |-> u, kids |-> kids]

NoNode == Node("none", "", <<>>, <<>>, <<>>)

\* n.Language(source) = nil
NoLanguage == <<"nil">>

----------------------------------------------------------------------------
(* The AST-to-Storage renderer (ConfluenceRenderer)                        *)

HasKind(nodes, kind) == \E k \in 1..Len(nodes) : nodes[k].kind = kind

\* a variant of isTaskList that also looks into the lists nested in the
\* items: a list that holds a task list is a task list too
isTaskList_Inherited(node) ==
    \E c \in 1..Len(node.kids) :
        /\ node.kids[c].kind = "ListItem"
        /\ \E g \in 1..Len(node.kids[c].kids) :
              \/ node.kids[c].kids[g].kind = "TaskCheckBox"
              \/ HasKind(node.kids[c].kids[g].kids, "TaskCheckBox")
              \/ /\ node.kids[c].kids[g].kind = "List"
                 /\ \E d \in 1..Len(node.kids[c].kids[g].kids) :
                       \E h \in 1..Len(node.kids[c].kids[g].kids[d].kids) :
                           HasKind(node.kids[c].kids[g].kids[d].kids[h].kids, "TaskCheckBox")

isTaskList(node) ==
    \E c \in 1..Len(node.kids) :
        /\ node.kids[c].kind = "ListItem"
        /\ \E g \in 1..Len(node.kids[c].kids) :
              \/ node.kids[c].kids[g].kind = "TaskCheckBox"
              \/ HasKind(node.kids[c].kids[g].kids, "TaskCheckBox")

\* the first TaskCheckBox among the children, each child before its own
\* children; NoNode for nil
RECURSIVE CheckBoxFrom(_, _)
CheckBoxFrom(kids, c) ==
    IF c > Len(kids) THEN NoNode
    ELSE IF kids[c].kind = "TaskCheckBox" THEN kids[c]
    ELSE LET hits == {g \in 1..Len(kids[c].kids) : kids[c].kids[g].kind = "TaskCheckBox"}
         IN  IF hits # {} THEN kids[c].kids[CHOOSE g \in hits : \A h \in hits : g <= h]
             ELSE CheckBoxFrom(kids, c + 1)

getTaskCheckBox(listItem) == CheckBoxFrom(listItem.kids, 1)

\* util.EscapeHTML
EscapeLexeme(l) ==
    CASE l = "<" -> <<"&", "lt", ";">>
      [] l = ">" -> <<"&", "gt", ";">>
      [] l = "&" -> <<"&", "amp", ";">>
      [] l = "\"" -> <<"&", "quot", ";">>
      [] OTHER -> <<l>>

RECURSIVE EscapeHTML(_)
EscapeHTML(s) ==
    IF s = <<>> THEN <<>>
    ELSE IF Len(s) = 1 THEN EscapeLexeme(s[1])
    ELSE EscapeHTML(SubSeq(s, 1, Len(s) \div 2))
         \o EscapeHTML(SubSeq(s, Len(s) \div 2 + 1, Len(s)))

\* util.URLEscape(v, true): bytes that are not safe in a URL are %-encoded
URLEscapeLexeme(l) ==
    CASE l = "<" -> "%3C"
      [] l = ">" -> "%3E"
      [] l = "\"" -> "%22"
      [] l = " " -> "%20"
      [] OTHER -> l

URLEscape(s) == [k \in 1..Len(s) |-> URLEscapeLexeme(s[k])]

CodeMacroOpen(lang) ==
    <<"<", "ac:structured-macro", " ">> \o NameCode \o <<">">>
    \o <<"<", "ac:parameter", " ">> \o NameLanguage \o <<">">>
    \o lang \o EndTag("ac:parameter") \o PlainBodyOpen

CodeMacroClose == PlainBodyClose \o EndTag("ac:structured-macro") \o <<"\n">>

renderCodeBlock(node, entering) ==
    IF entering THEN CodeMacroOpen(<<"none">>) \o node.t ELSE CodeMacroClose

\* a variant of renderFencedCodeBlock: the lines are entity-escaped, as the
\* renderer escapes the text of a paragraph
renderFencedCodeBlock_Escapes(node, entering) ==
    IF entering
    THEN CodeMacroOpen(IF node.u # NoLanguage THEN node.u ELSE <<"none">>)
         \o EscapeHTML(node.t)
    ELSE CodeMacroClose

renderFencedCodeBlock(node, entering) ==
    IF entering
    THEN CodeMacroOpen(IF node.u # NoLanguage THEN node.u ELSE <<"none">>) \o node.t
    ELSE CodeMacroClose

HTMLOmitted == <<"<", "!", "-", "-", " ", "raw HTML omitted", " ", "-", "-", ">">>

\* a variant of renderHTMLBlock: the block's lines are written, as the
\* renderer writes the lines of a code block
renderHTMLBlock_WritesLines(node, entering) == IF entering THEN node.t ELSE <<>>

renderHTMLBlock(node, entering) == IF entering THEN HTMLOmitted \o <<"\n">> ELSE <<>>

renderRawHTML(node, entering) == <<>>

renderHeading(node, entering) ==
    IF entering THEN Tag(node.a) ELSE EndTag(node.a) \o <<"\n">>

renderBlockquote(node, entering) ==
    IF entering THEN Tag("blockquote") \o <<"\n">> ELSE EndTag("blockquote") \o <<"\n">>

\* a variant of renderList: every list that is not ordered is closed as <ul>
renderList_ClosedAsPlain(node, entering) ==
    IF isTaskList(node) /\ entering
    THEN Tag("ac:task-list") \o <<"\n">>
    ELSE (IF entering THEN Tag(IF node.a = "ordered" THEN "ol" ELSE "ul")
          ELSE EndTag(IF node.a = "ordered" THEN "ol" ELSE "ul")) \o <<"\n">>

renderList(node, entering) ==
    IF isTaskList(node)
    THEN (IF entering THEN Tag("ac:task-list") ELSE EndTag("ac:task-list")) \o <<"\n">>
    ELSE (IF entering THEN Tag(IF node.a = "ordered" THEN "ol" ELSE "ul")
          ELSE EndTag(IF node.a = "ordered" THEN "ol" ELSE "ul")) \o <<"\n">>

\* a variant of renderListItem: an item without a checkbox gets no status
renderListItem_NoBoxNoStatus(node, parent, entering) ==
    IF parent # NoNode /\ isTaskList(parent)
    THEN IF entering
         THEN Tag("ac:task") \o <<"\n">>
              \o (IF getTaskCheckBox(node) = NoNode THEN <<>>
                  ELSE Tag("ac:task-status")
                       \o (IF getTaskCheckBox(node).a = "checked"
                           THEN <<"complete">> ELSE <<"incomplete">>)
                       \o EndTag("ac:task-status") \o <<"\n">>)
              \o Tag("ac:task-body")
         ELSE EndTag("ac:task-body") \o <<"\n">> \o EndTag("ac:task") \o <<"\n">>
    ELSE IF entering THEN Tag("li") ELSE EndTag("li") \o <<"\n">>

renderListItem(node, parent, entering) ==
    IF parent # NoNode /\ isTaskList(parent)
    THEN IF entering
         THEN Tag("ac:task") \o <<"\n">>
              \o Tag("ac:task-status")
              \o (IF getTaskCheckBox(node) # NoNode /\ getTaskCheckBox(node).a = "checked"
                  THEN <<"complete">> ELSE <<"incomplete">>)
              \o EndTag("ac:task-status") \o <<"\n">>
              \o Tag("ac:task-body")
         ELSE EndTag("ac:task-body") \o <<"\n">> \o EndTag("ac:task") \o <<"\n">>
    ELSE IF entering THEN Tag("li") ELSE EndTag("li") \o <<"\n">>

\* a variant of renderParagraph: no paragraph of a list item is wrapped
renderParagraph_NeverInItem(node, parent, grandparent, entering) ==
    IF parent # NoNode /\ parent.kind = "ListItem"
    THEN <<>>
    ELSE IF entering THEN Tag("p") ELSE EndTag("p") \o <<"\n">>

renderParagraph(node, parent, grandparent, entering) ==
    IF parent # NoNode /\ parent.kind = "ListItem"
       /\ grandparent # NoNode /\ isTaskList(grandparent)
    THEN <<>>
    ELSE IF entering THEN Tag("p") ELSE EndTag("p") \o <<"\n">>

renderTextBlock(node, entering) == IF entering THEN <<>> ELSE <<"\n">>

renderThematicBreak(node, entering) ==
    IF entering THEN <<"<", "hr", " ", "/", ">", "\n">> ELSE <<>>

renderAutoLink(node, entering) ==
    IF entering
    THEN <<"<", "a", " ">> \o Attr("href=", EscapeHTML(URLEscape(node.t))) \o <<">">>
         \o EscapeHTML(node.t)
    ELSE EndTag("a")

RECURSIVE SegmentsOf(_)
SegmentsOf(kids) == IF kids = <<>> THEN <<>> ELSE Head(kids).t \o SegmentsOf(Tail(kids))

renderCodeSpan(node, entering) ==
    IF entering THEN Tag("code") \o SegmentsOf(node.kids) \o EndTag("code") ELSE <<>>

renderEmphasis(node, entering) ==
    LET tag == IF node.a = "2" THEN "strong" ELSE "em"
    IN  IF entering THEN Tag(tag) ELSE EndTag(tag)

renderImage(node, entering) ==
    IF entering
    THEN Tag("ac:image") \o <<"<", "ri:url", " ">>
         \o Attr("ri:value=", EscapeHTML(URLEscape(node.t)))
         \o <<" ", "/", ">">> \o EndTag("ac:image")
    ELSE <<>>

renderLink(node, entering) ==
    IF entering
    THEN <<"<", "a", " ">> \o Attr("href=", EscapeHTML(URLEscape(node.t)))
         \o (IF Len(node.u) > 0 THEN <<" ">> \o Attr("title=", EscapeHTML(node.u)) ELSE <<>>)
         \o <<">">>
    ELSE EndTag("a")

renderText(node, entering) ==
    IF entering
    THEN EscapeHTML(node.t)
         \o (IF node.a = "hard" THEN <<"<", "br", " ", "/", ">", "\n">>
             ELSE IF node.a = "soft" THEN <<"\n">> ELSE <<>>)
    ELSE <<>>

renderString(node, entering) == IF entering THEN EscapeHTML(node.t) ELSE <<>>

renderTable(node, entering) ==
    IF entering THEN Tag("table") \o Tag("tbody") \o <<"\n">>
    ELSE EndTag("tbody") \o EndTag("table") \o <<"\n">>

renderTableHeader(node, entering) == <<>>

renderTableRow(node, entering) ==
    IF entering THEN Tag("tr") ELSE EndTag("tr") \o <<"\n">>

\* a variant of renderTableCell: the tag is td in the header too
renderTableCell_AlwaysTd(node, parent, entering) ==
    IF entering
    THEN <<"<", "td">>
         \o (IF node.a # "none" THEN <<" ">> \o Attr("align=", <<node.a>>) ELSE <<>>)
         \o <<">">>
    ELSE EndTag("td")

renderTableCell(node, parent, entering) ==
    LET tag == IF parent.kind = "TableHeader" THEN "th" ELSE "td"
    IN  IF entering
        THEN <<"<", tag>>
             \o (IF node.a # "none" THEN <<" ">> \o Attr("align=", <<node.a>>) ELSE <<>>)
             \o <<">">>
        ELSE EndTag(tag)

renderTaskCheckBox(node, entering) == <<>>

renderStrikethrough(node, entering) == IF entering THEN Tag("del") ELSE EndTag("del")

\* RegisterFuncs: the function registered for the node's kind
RenderFunc(node, parent, grandparent, entering) ==
    CASE node.kind = "Document" -> <<>>
      [] node.kind = "Heading" -> renderHeading(node, entering)
      [] node.kind = "Blockquote" -> renderBlockquote(node, entering)
      [] node.kind = "CodeBlock" -> renderCodeBlock(node, entering)
      [] node.kind = "FencedCodeBlock" -> renderFencedCodeBlock(node, entering)
      [] node.kind = "HTMLBlock" -> renderHTMLBlock(node, entering)
      [] node.kind = "List" -> renderList(node, entering)
      [] node.kind = "ListItem" -> renderListItem(node, parent, entering)
      [] node.kind = "Paragraph" -> renderParagraph(node, parent, grandparent, entering)
      [] node.kind = "TextBlock" -> renderTextBlock(node, entering)
      [] node.kind = "ThematicBreak" -> renderThematicBreak(node, entering)
      [] node.kind = "AutoLink" -> renderAutoLink(node, entering)
      [] node.kind = "CodeSpan" -> renderCodeSpan(node, entering)
      [] node.kind = "Emphasis" -> renderEmphasis(node, entering)
      [] node.kind = "Image" -> renderImage(node, entering)
      [] node.kind = "Link" -> renderLink(node, entering)
      [] node.kind = "RawHTML" -> renderRawHTML(node, entering)
      [] node.kind = "Text" -> renderText(node, entering)
      [] node.kind = "String" -> renderString(node, entering)
      [] node.kind = "Table" -> renderTable(node, entering)
      [] node.kind = "TableHeader" -> renderTableHeader(node, entering)
      [] node.kind = "TableRow" -> renderTableRow(node, entering)
      [] node.kind = "TableCell" -> renderTableCell(node, parent, entering)
      [] node.kind = "TaskCheckBox" -> renderTaskCheckBox(node, entering)
      [] node.kind = "Strikethrough" -> renderStrikethrough(node, entering)

\* the kinds whose function returns WalkSkipChildren on entering
SkipsChildren(node) == node.kind \in {"CodeSpan", "Image"}

\* ast.Walk: the function on entering, the children in order, the function
\* on leaving
RECURSIVE Walk(_, _, _)
RECURSIVE WalkKids(_, _, _, _)
Walk(node, parent, grandparent) ==
    RenderFunc(node, parent, grandparent, TRUE)
    \o (IF SkipsChildren(node) THEN <<>> ELSE WalkKids(node.kids, 1, node, parent))
    \o RenderFunc(node, parent, grandparent, FALSE)
WalkKids(kids, k, parent, grandparent) ==
    IF k > Len(kids) THEN <<>>
    ELSE Walk(kids[k], parent, grandparent) \o WalkKids(kids, k + 1, parent, grandparent)

\* a variant of MarkdownToStorageResult: a failed conversion returns the
\* buffer, which holds nothing, in place of the input
MarkdownToStorageResult_ReturnsBuffer(d, convertErr) ==
    IF convertErr THEN <<>> ELSE Walk(d.ast, NoNode, NoNode)

\* markdown.go 14-39: the result of MarkdownToStorage for a document whose
\* parse is d.ast, when md.Convert does or does not return an error
MarkdownToStorageResult(d, convertErr) ==
    IF convertErr THEN d.markdown ELSE Walk(d.ast, NoNode, NoNode)

----------------------------------------------------------------------------
(* The HTML-to-Markdown transducer (storageConverter.ConvertString), an    *)
(* external library: what it does with the HTML the preprocessor produces  *)

\* <pre><code ...> at i: the position after the '>' of <code ...>, 0 if none
PreCodeAt(h, i) ==
    IF StartsAt(h, i, Tag("pre") \o <<"<", "code">>)
    THEN LET g == SkipNot(h, i + 5, ">") IN IF g > Len(h) THEN 0 ELSE g + 1
    ELSE 0

\* the language of class="language-X" in the lexemes of a <code ...> tag
ClassLanguage(tag) ==
    LET q == IndexFrom(tag, 1, <<"class=", "\"", "language", "-">>)
    IN  IF q = 0 THEN <<>> ELSE SubSeq(tag, q + 4, SkipNot(tag, q + 4, "\"") - 1)

\* a code element becomes a fenced block holding the element's text, which
\* the HTML parser has entity-decoded
FencedBlock(lang, text) ==
    <<"\n", "\n">> \o Fence \o lang \o <<"\n">>
    \o TrimSuffix(text, <<"\n">>) \o <<"\n">> \o Fence \o <<"\n", "\n">>

\* what the transducer writes for the element, tag or entity at i, and where
\* it reads on; NoMatch for a lexeme of text
TransduceAt(h, i) ==
    LET o == PreCodeAt(h, i)
        e == IndexFrom(h, o, EndTag("code") \o EndTag("pre"))
        g == SkipNot(h, i, ">")
    IN  IF o # 0 /\ e # 0
        THEN [end |-> e + 8,
              md |-> FencedBlock(ClassLanguage(SubSeq(h, i + 3, o - 1)),
                                 UnescapeString(SubSeq(h, o, e - 1)))]
        ELSE IF StartsAt(h, i, Tag("li")) THEN [end |-> i + 3, md |-> <<"-", " ">>]
        ELSE IF h[i] = "<" /\ g <= Len(h)
             THEN [end |-> g + 1,
                   md |-> IF StartsAt(h, i, <<"<", "/">>) THEN <<"\n">> ELSE <<>>]
        ELSE IF EntityAt(h, i)
             THEN [end |-> IF i + 2 <= Len(h) /\ h[i + 2] = ";" THEN i + 3 ELSE i + 2,
                   md |-> <<EntityChar(h[i + 1])>>]
        ELSE NoMatch

RECURSIVE TransduceFrom(_, _)
TransduceFrom(h, i) ==
    LET hits == {j \in i..Len(h) : TransduceAt(h, j).end # 0}
        j == Least(hits)
        m == TransduceAt(h, j)
    IN  IF hits = {} THEN From(h, i)
        ELSE SubSeq(h, i, j - 1) \o m.md \o TransduceFrom(h, m.end)

Transduce(h) == TrimSpace(TransduceFrom(h, 1))

----------------------------------------------------------------------------
(* StorageToMarkdown, storage.go 122-246                                   *)

\* The reply of ConvertString: an error, or the Markdown text
Reply(err, md) == [err |-> err, md |-> md]

\* a variant of StorageToMarkdownResult: the error of ConvertString is
\* dropped and the text is normalized as if the conversion had succeeded
StorageToMarkdownResult_DropsError(s, reply) ==
    LET processed == Preprocess(s)
        decoded == UnescapeString(reply.md)
        checked == fixCheckboxes(decoded)
        escaped == fixOverEscaping(checked)
        loop == UnderscoreLoop(escaped, 0)
    IN  [reply |-> reply, processed |-> processed, transduced |-> reply.md,
         decoded |-> decoded, checked |-> checked, escaped |-> escaped,
         iterations |-> loop.iterations, md |-> fixNestedListSpacing(loop.md),
         err |-> FALSE]

\* Every value the function computes on the way, and what it returns (md, err);
\* reply is what ConvertString answered
StorageToMarkdownResult(s, reply) ==
    LET processed == Preprocess(s)
        decoded == UnescapeString(reply.md)
        checked == fixCheckboxes(decoded)
        escaped == fixOverEscaping(checked)
        loop == UnderscoreLoop(escaped, 0)
    IN  IF reply.err
        THEN [reply |-> reply, processed |-> processed, transduced |-> <<>>,
              decoded |-> <<>>, checked |-> <<>>, escaped |-> <<>>, iterations |-> 0,
              md |-> <<>>, err |-> TRUE]
        ELSE [reply |-> reply, processed |-> processed, transduced |-> reply.md,
              decoded |-> decoded, checked |-> checked, escaped |-> escaped,
              iterations |-> loop.iterations, md |-> fixNestedListSpacing(loop.md),
              err |-> FALSE]

----------------------------------------------------------------------------
(* Inputs: Markdown documents with the AST the parser builds for them      *)

MaxLead == 1
MaxTasks == 2

\* all sequences over S of length at most n
SeqsUpTo(S, n) == UNION {[1..k -> S] : k \in 0..n}

Text(t) == Node("Text", "", t, <<>>, <<>>)
Leaf(kind, a, t) == Node(kind, a, t, <<>>, <<>>)
Inner(kind, a, kids) == Node(kind, a, <<>>, <<>>, kids)
Paragraph(kids) == Inner("Paragraph", "", kids)
TextBlock(kids) == Inner("TextBlock", "", kids)
CodeSpan(t) == Inner("CodeSpan", "", <<Text(t)>>)
Block(src, node) == [src |-> src, node |-> node]

ImageMacroText ==
    Tag("ac:image") \o <<"<", "ri:url", " ">> \o Attr("ri:value=", <<"u">>)
    \o <<" ", "/", ">">> \o EndTag("ac:image")

\* Bodies of code blocks: each line with its newline
CodeBodies ==
    { <<>>,
      <<"a", "\n">>,
      <<"a", " ", "<", " ", "b", " ", "&", " ", "c", ">", "\n">>,
      <<"\"", "a", "\\", "\\", "b", "\"", "\n">>,
      <<"a", "\\", "_", "b", "\n">>,
      <<"\\", "[", " ", "]", "\n">>,
      <<"&", "lt", ";", "\n">>,
      <<"&", "amp", ";", "\n">>,
      <<"]", "]", ">", "\n">>,
      ImageMacroText \o <<"\n">> }

FencedBlockOf(lang, code) ==
    Block(Fence \o (IF lang = NoLanguage THEN <<>> ELSE lang) \o <<"\n">> \o code
          \o Fence \o <<"\n">>,
          Node("FencedCodeBlock", "", code, lang, <<>>))

CodeBlocksIn ==
    {FencedBlockOf(NoLanguage, code) : code \in CodeBodies}
    \cup {FencedBlockOf(<<"go">>, code) : code \in {<<"a", "\n">>, <<>>}}
    \cup {FencedBlockOf(<<"c", "+", "+">>, <<"a", "\n">>)}
    \cup {FencedBlockOf(Tag("b"), <<"a", "\n">>)}
    \cup {Block(<<" ", " ", " ", " ", "a", "\n">>, Leaf("CodeBlock", "", <<"a", "\n">>))}

\* a paragraph with its inline children
ParagraphBlocks ==
    { Block(<<"a", "\n">>, Paragraph(<<Text(<<"a">>)>>)),
      Block(<<"a", "<", "b", "&", "c", "\n">>, Paragraph(<<Text(<<"a", "<", "b", "&", "c">>)>>)),
      Block(<<"*", "a", "*", " ", "*", "*", "b", "*", "*", "\n">>,
            Paragraph(<<Inner("Emphasis", "1", <<Text(<<"a">>)>>), Text(<<" ">>),
                        Inner("Emphasis", "2", <<Text(<<"b">>)>>)>>)),
      Block(<<"a">> \o Tag("u") \o <<"b">> \o EndTag("u") \o <<"\n">>,
            Paragraph(<<Text(<<"a">>), Leaf("RawHTML", "", Tag("u")), Text(<<"b">>),
                        Leaf("RawHTML", "", EndTag("u"))>>)),
      Block(<<Backtick>> \o Tag("div") \o <<Backtick, "\n">>,
            Paragraph(<<CodeSpan(Tag("div"))>>)),
      Block(<<"[", "a", "]", "(", "u", ")", "\n">>,
            Paragraph(<<Node("Link", "", <<"u">>, <<>>, <<Text(<<"a">>)>>)>>)),
      Block(<<"[", "a", "]", "(", "u", " ", "\"", "T", "\"", ")", "\n">>,
            Paragraph(<<Node("Link", "", <<"u">>, <<"T">>, <<Text(<<"a">>)>>)>>)),
      Block(<<"!", "[", "a", "]", "(", "u", ")", "\n">>,
            Paragraph(<<Node("Image", "", <<"u">>, <<>>, <<Text(<<"a">>)>>)>>)),
      Block(<<"<", "u", ">", "\n">>, Paragraph(<<Leaf("AutoLink", "", <<"u">>)>>)),
      Block(<<"~", "~", "a", "~", "~", "\n">>,
            Paragraph(<<Inner("Strikethrough", "", <<Text(<<"a">>)>>)>>)),
      Block(<<"a", "\\", "\n", "b", "\n">>,
            Paragraph(<<Leaf("Text", "hard", <<"a">>), Text(<<"b">>)>>)),
      Block(<<"a", "\n", "b", "\n">>,
            Paragraph(<<Leaf("Text", "soft", <<"a">>), Text(<<"b">>)>>)) }

OtherBlocks ==
    { Block(<<"#", " ", "a", "\n">>, Inner("Heading", "h1", <<Text(<<"a">>)>>)),
      Block(<<"#", "#", " ", "a", "\n">>, Inner("Heading", "h2", <<Text(<<"a">>)>>)),
      Block(Tag("div") \o <<"a">> \o EndTag("div") \o <<"\n">>,
            Leaf("HTMLBlock", "", Tag("div") \o <<"a">> \o EndTag("div") \o <<"\n">>)),
      Block(<<"<", "!", "-", "-", "a", "-", "-", ">", "\n">>,
            Leaf("HTMLBlock", "", <<"<", "!", "-", "-", "a", "-", "-", ">", "\n">>)),
      Block(<<"-", "-", "-", "\n">>, Leaf("ThematicBreak", "", <<>>)),
      Block(<<">", " ", "a", "\n">>, Inner("Blockquote", "", <<Paragraph(<<Text(<<"a">>)>>)>>)) }

\* One list item: its marker text and its node.  box is "checked",
\* "unchecked" or "none" (an item without a checkbox).
CheckBoxText(box) ==
    IF box = "checked" THEN <<"[", "x", "]", " ">>
    ELSE IF box = "unchecked" THEN <<"[", " ", "]", " ">> ELSE <<>>

Item(box, src, inlines, nested) ==
    [src |-> <<"-", " ">> \o CheckBoxText(box) \o src \o <<"\n">>,
     box |-> box,
     node |-> Inner("ListItem", "",
                    <<TextBlock((IF box = "none" THEN <<>>
                                 ELSE <<Leaf("TaskCheckBox", box, <<>>)>>) \o inlines)>>
                    \o nested)]

\* the items of flat lists: a word, or a code span that quotes a tag
FlatItems ==
    { Item("checked", <<"a">>, <<Text(<<"a">>)>>, <<>>),
      Item("unchecked", <<"a">>, <<Text(<<"a">>)>>, <<>>),
      Item("none", <<"a">>, <<Text(<<"a">>)>>, <<>>),
      Item("unchecked", <<Backtick>> \o EndTag("ac:task-list") \o <<Backtick>>,
           <<CodeSpan(EndTag("ac:task-list"))>>, <<>>) }

RECURSIVE ItemSources(_)
ItemSources(items) == IF items = <<>> THEN <<>> ELSE Head(items).src \o ItemSources(Tail(items))

ListOf(items) ==
    Block(ItemSources(items),
          Inner("List", "bullet", [k \in 1..Len(items) |-> items[k].node]))

FlatLists == {ListOf(items) : items \in SeqsUpTo(FlatItems, MaxTasks) \ {<<>>}}

\* a list nested in the single item of another list
NestedIn(box, innerBox) ==
    LET inner == ListOf(<<Item(innerBox, <<"b">>, <<Text(<<"b">>)>>, <<>>)>>)
        outer == Item(box, <<"a">>, <<Text(<<"a">>)>>, <<inner.node>>)
    IN  Block(outer.src \o <<" ", " ">> \o inner.src, Inner("List", "bullet", <<outer.node>>))

\* a task item that holds a plain list whose items stand apart: the inner
\* list is loose and its items hold paragraphs, the outer list is tight
LoosePlainInTask ==
    Block(<<"-", " ", "[", "x", "]", " ", "a", "\n", " ", " ", "-", " ", "b", "\n", "\n",
            " ", " ", "-", " ", "c", "\n">>,
          Inner("List", "bullet",
                <<Inner("ListItem", "",
                        <<TextBlock(<<Leaf("TaskCheckBox", "checked", <<>>), Text(<<"a">>)>>),
                          Inner("List", "bullet",
                                <<Inner("ListItem", "", <<Paragraph(<<Text(<<"b">>)>>)>>),
                                  Inner("ListItem", "", <<Paragraph(<<Text(<<"c">>)>>)>>)>>)>>)>>))

NestedLists ==
    {NestedIn(box, innerBox) : box \in {"none", "checked"}, innerBox \in {"none", "unchecked"}}
    \cup { Block(<<"1", ".", " ", "a", "\n">>,
                 Inner("List", "ordered",
                       <<Inner("ListItem", "", <<TextBlock(<<Text(<<"a">>)>>)>>)>>)),
           Block(<<"-", " ", "a", "\n", "\n", "-", " ", "b", "\n">>,
                 Inner("List", "bullet",
                       <<Inner("ListItem", "", <<Paragraph(<<Text(<<"a">>)>>)>>),
                         Inner("ListItem", "", <<Paragraph(<<Text(<<"b">>)>>)>>)>>)),
           Block(<<"-", " ", "[", "x", "]", " ", "a", "\n", "\n", "-", " ", "[", " ", "]",
                   " ", "b", "\n">>,
                 Inner("List", "bullet",
                       <<Inner("ListItem", "",
                               <<Paragraph(<<Leaf("TaskCheckBox", "checked", <<>>),
                                             Text(<<"a">>)>>)>>),
                         Inner("ListItem", "",
                               <<Paragraph(<<Leaf("TaskCheckBox", "unchecked", <<>>),
                                             Text(<<"b">>)>>)>>)>>)),
           LoosePlainInTask }

Cell(align, t) == Inner("TableCell", align, <<Text(t)>>)

TableOf(align) ==
    Block(<<"|", "a", "|", "\n", "|", align, "|", "\n", "|", "b", "|", "\n">>,
          Inner("Table", "",
                <<Inner("TableHeader", "", <<Cell(align, <<"a">>)>>),
                  Inner("TableRow", "", <<Cell(align, <<"b">>)>>)>>))

\* a table of two columns, each with its own alignment
WideTableOf(a1, a2) ==
    Block(<<"|", "a", "|", "b", "|", "\n", "|", a1, "|", a2, "|", "\n",
            "|", "c", "|", "d", "|", "\n">>,
          Inner("Table", "",
                <<Inner("TableHeader", "", <<Cell(a1, <<"a">>), Cell(a2, <<"b">>)>>),
                  Inner("TableRow", "", <<Cell(a1, <<"c">>), Cell(a2, <<"d">>)>>)>>))

Tables ==
    {TableOf(align) : align \in {"none", "left", "center", "right"}}
    \cup {WideTableOf("left", "right"), WideTableOf("none", "center")}

Blocks == CodeBlocksIn \cup ParagraphBlocks \cup OtherBlocks \cup FlatLists
          \cup NestedLists \cup Tables

\* the blocks that may precede the block under study
LeadBlocks ==
    { Block(<<"a", "\n">>, Paragraph(<<Text(<<"a">>)>>)),
      Block(<<"a">> \o Tag("u") \o <<"b">> \o EndTag("u") \o <<"\n">>,
            Paragraph(<<Text(<<"a">>), Leaf("RawHTML", "", Tag("u")), Text(<<"b">>),
                        Leaf("RawHTML", "", EndTag("u"))>>)),
      FencedBlockOf(<<"go">>, <<"a", "\n">>),
      FencedBlockOf(NoLanguage, <<>>),
      Block(<<"*", " ", "[", "x", "]", " ", "a", "\n">>,
            ListOf(<<Item("checked", <<"a">>, <<Text(<<"a">>)>>, <<>>)>>).node) }

\* blocks the parser would not keep apart: a list goes on with the next list
\* of its marker, and takes an indented block after it into its last item
RunTogether(bs) ==
    \E k \in 1..(Len(bs) - 1) :
        /\ bs[k].node.kind = "List"
        /\ \/ bs[k + 1].node.kind = "CodeBlock"
           \/ /\ bs[k + 1].node.kind = "List"
              /\ bs[k + 1].node.a = bs[k].node.a
              /\ bs[k + 1].src[1] = bs[k].src[1]

RECURSIVE BlockSources(_)
BlockSources(bs) ==
    IF bs = <<>> THEN <<>>
    ELSE Head(bs).src \o (IF Len(bs) > 1 THEN <<"\n">> ELSE <<>>) \o BlockSources(Tail(bs))

DocOf(bs) ==
    [markdown |-> BlockSources(bs),
     ast |-> Inner("Document", "", [k \in 1..Len(bs) |-> bs[k].node])]

LeadThenBlock == {lead \o <<b>> : lead \in SeqsUpTo(LeadBlocks, MaxLead), b \in Blocks}

Docs == {DocOf(bs) : bs \in {c \in LeadThenBlock : ~RunTogether(c)}}

NoDoc == [markdown |-> <<>>, ast |-> NoNode]

----------------------------------------------------------------------------
(* Inputs: storage fetched from the platform                               *)

MaxLeadSegments == 1

Param(name, value) ==
    <<"<", "ac:parameter", " ">> \o Attr("ac:name=", <<name>>) \o <<">">> \o value
    \o EndTag("ac:parameter")

\* the opening tag of a structured macro, the name attribute first or last
MacroOpen(name, nameLast) ==
    <<"<", "ac:structured-macro", " ">>
    \o (IF nameLast
        THEN Attr("ac:schema-version=", <<"1">>) \o <<" ">> \o Attr("ac:name=", <<name>>)
        ELSE Attr("ac:name=", <<name>>))
    \o <<">">>

\* parameter lists: none, the language alone, with others before and after,
\* an empty and a padded language, no language at all, three parameters with
\* the language in the middle and at the end
ParamRecords ==
    LET P(name, value) == [name |-> name, value |-> value]
    IN  { <<>>,
          <<P("language", <<"go">>)>>,
          <<P("title", <<"T">>), P("language", <<"go">>)>>,
          <<P("language", <<"go">>), P("title", <<"T">>)>>,
          <<P("language", <<>>)>>,
          <<P("language", <<" ", "go", " ">>)>>,
          <<P("title", <<"T">>)>>,
          <<P("title", <<"T">>), P("language", <<"go">>), P("collapse", <<"true">>)>>,
          <<P("title", <<"T">>), P("linenumbers", <<"true">>), P("language", <<"go">>)>>,
          <<P("collapse", <<"true">>), P("title", <<"T">>)>> }

ParamLists ==
    {[k \in 1..Len(ps) |-> Param(ps[k].name, ps[k].value)] : ps \in ParamRecords}

RECURSIVE Joined(_, _)
Joined(parts, gap) ==
    IF parts = <<>> THEN <<>> ELSE Head(parts) \o gap \o Joined(Tail(parts), gap)

EmptyCodeMacroText == MacroOpen("code", FALSE) \o EndTag("ac:structured-macro")

TaskText(pre, status, body) ==
    Tag("ac:task") \o pre \o Tag("ac:task-status") \o status \o EndTag("ac:task-status")
    \o Tag("ac:task-body") \o body \o EndTag("ac:task-body") \o EndTag("ac:task")

TaskListText(tasks) == Tag("ac:task-list") \o Cat(tasks) \o EndTag("ac:task-list")

\* what a fetched code macro may hold in its CDATA section
FetchedBodies ==
    { <<>>, <<"a">>, <<"a", "<", "b", ">", "c">>, ImageMacroText, EmptyCodeMacroText,
      TaskListText(<<TaskText(<<>>, <<"complete">>, <<"a">>)>>) }

\* a code macro with a plain-text body
CodeMacroText(nameLast, params, gap, code) ==
    MacroOpen("code", nameLast) \o gap \o Joined(params, gap)
    \o PlainBodyOpen \o code \o PlainBodyClose \o gap \o EndTag("ac:structured-macro")

CodeSegments ==
    {CodeMacroText(nameLast, params, <<>>, <<"a">>) :
        nameLast \in BOOLEAN, params \in ParamLists}
    \cup {CodeMacroText(FALSE, <<Param("language", <<"go">>)>>, gap, code) :
             gap \in {<<>>, <<"\n", " ">>}, code \in FetchedBodies}
    \cup {MacroOpen("code", FALSE) \o gap \o Joined(params, gap)
          \o EndTag("ac:structured-macro") :
             gap \in {<<>>, <<"\n">>}, params \in ParamLists}

\* tasks as the renderer writes them, as the platform stores them (with an
\* ac:task-id before the status), with a padded status and a body wrapped
\* in <p>, with an unknown status and an image in a padded body
FetchedTasks ==
    { TaskText(<<>>, <<"complete">>, <<"a">>),
      TaskText(<<"\n">>, <<"incomplete">>, <<"b">>),
      TaskText(<<>>, <<" ", "complete", "\n">>, Tag("p") \o <<"a">> \o EndTag("p")),
      TaskText(Tag("ac:task-id") \o <<"1">> \o EndTag("ac:task-id"), <<"complete">>, <<"a">>),
      TaskText(<<>>, <<"done">>, <<" ">> \o ImageMacroText \o <<" ">>) }

TaskSegments == {TaskListText(tasks) : tasks \in SeqsUpTo(FetchedTasks, MaxTasks)}

OtherSegments ==
    { <<>>,
      Tag("p") \o <<"a">> \o EndTag("p"),
      Tag("h1") \o <<"a">>,
      ImageMacroText,
      <<"<", "ac:image", " ">> \o Attr("ac:align=", <<"center">>) \o <<">", "\n">>
          \o <<"<", "ri:url", " ">> \o Attr("ri:value=", <<"u">>) \o <<"/", ">">>
          \o EndTag("ac:image"),
      Tag("ac:image") \o <<"<", "ri:attachment", " ">> \o Attr("ri:filename=", <<"a">>)
          \o <<" ", "/", ">">> \o EndTag("ac:image"),
      MacroOpen("info", FALSE) \o Tag("ac:rich-text-body") \o Tag("p") \o <<"a">>
          \o EndTag("p") \o EndTag("ac:rich-text-body") \o EndTag("ac:structured-macro"),
      MacroOpen("code", FALSE) \o PlainBodyOpen \o <<"a">>,
      Tag("ac:task-list") \o TaskText(<<>>, <<"complete">>, <<"a">>),
      TaskListText(<<TaskText(<<>>, <<"complete">>, <<"a">>)>>)
          \o TaskListText(<<TaskText(<<>>, <<"incomplete">>, <<"b">>)>>),
      Tag("p") \o <<"a">> \o EndTag("p") \o <<"\n">> \o ImageMacroText }

Segments == CodeSegments \cup TaskSegments \cup OtherSegments

LeadSegments ==
    { CodeMacroText(FALSE, <<Param("language", <<"go">>)>>, <<>>, <<"a">>) \o <<"\n">> }

FetchedStorages ==
    {Cat(lead) \o seg : lead \in SeqsUpTo(LeadSegments, MaxLeadSegments), seg \in Segments}

----------------------------------------------------------------------------
(* Inputs: Markdown text the transducer returns for a page                 *)

MaxPieces == 4
MaxUnderscores == 6
MaxCore == 2

MarkdownPieces ==
    { <<"a">>, <<"\\">>, <<"\\", "_">>, <<"[", " ", "]">>, <<"[", "x", "]">>,
      <<"[", "X", "]">>, <<"*">> }

PieceTexts == {Cat(ps) : ps \in SeqsUpTo(MarkdownPieces, MaxPieces)}

\* identifiers with several escaped underscores
UnderscoreTexts == {Cat(ps) : ps \in SeqsUpTo({<<"a">>, <<"\\", "_">>, <<"1">>}, MaxUnderscores)}

CoreTexts == {Cat(ps) : ps \in SeqsUpTo(MarkdownPieces, MaxCore)}

\* one fenced code block and nothing else: plain, with a language, with a
\* language that holds a non-letter, inside a blockquote
FencedTexts ==
    UNION {{ Fence \o <<"\n">> \o core \o <<"\n">> \o Fence,
             Fence \o <<"go", "\n">> \o core \o <<"\n">> \o Fence,
             Fence \o <<"c", "+", "+", "\n">> \o core \o <<"\n">> \o Fence,
             <<">", " ">> \o Fence \o <<"\n", ">", " ">> \o core \o <<"\n", ">", " ">>
                 \o Fence } : core \in CoreTexts}

\* text and code blocks together: text before and after a block, a block
\* after an empty block, an identifier after two blocks
MixedTexts ==
    UNION {{ core \o <<"\n", "\n">> \o Fence \o <<"\n", "a", "\n">> \o Fence,
             Fence \o <<"\n", "a", "\n">> \o Fence \o <<"\n", "\n">> \o core,
             Fence \o <<"\n">> \o Fence \o <<"\n", "\n">> \o Fence \o <<"go", "\n">> \o core
                 \o <<"\n">> \o Fence } : core \in CoreTexts}
    \cup { Fence \o <<"\n", "a", "\n">> \o Fence \o <<"\n", "\n">> \o Fence
               \o <<"go", "\n", "a", "\n">> \o Fence \o <<"\n", "\n">> \o u :
            u \in UnderscoreTexts }

\* nested lists as the transducer writes them, loose
ListTexts ==
    { <<"-", " ", "a", "\n", "\n", " ", " ", "-", " ", "b">>,
      <<"-", " ", "a", "\n", " ", " ", "\n", " ", " ", "-", " ", "b">>,
      <<"-", " ", "a", "\n", " ", " ", "\n", " ", " ", "1", ".", " ", "b">>,
      <<"-", " ", "a", "\n", " ", " ", "\n", " ", " ", "*", " ", "b">>,
      <<"-", " ", "a", "\\", "_", "b", "\n", " ", " ", "\n", " ", " ", "-", " ", "b">>,
      <<"-", " ", "a", "\n", "\t", "\n", "\t", "-", " ", "b">>,
      <<"-", " ", "a", "\n", " ", " ", "\n", " ", " ", "-", " ", "b",
        "\n", " ", " ", " ", " ", "\n", " ", " ", " ", " ", "-", " ", "c">> }

MarkdownTexts == PieceTexts \cup UnderscoreTexts \cup FencedTexts \cup MixedTexts \cup ListTexts

\* a page body without macros, whose Markdown the transducer writes
Page == Tag("p") \o <<"page">> \o EndTag("p")

----------------------------------------------------------------------------
(* The calls                                                               *)

NoRet == [out |-> <<>>]

\* Concurrent calls: goroutines that call the two functions at the same time
MaxProcs == 2
Procs == 1..MaxProcs

\* storage.go 84-120, 250, 262, 302: the package-level variables, each with
\* the pattern or the plugins it is initialized with
PackageVars ==
    [storageConverter |-> <<"base", "commonmark", "table", "strikethrough">>,
     codeMacroRegex |-> "code macro with body",
     emptyCodeMacroRegex |-> "code macro without body",
     languageRegex |-> "language parameter",
     taskListRegex |-> "task list",
     taskRegex |-> "task",
     imageRegex |-> "image with url",
     nestedListBlankLineRegex |-> "blank line before nested marker",
     codeBlockRegex |-> "fenced block",
     intraWordUnderscoreRegex |-> "escaped underscore in a word"]

\* a goroutine that is in no call, and the locals of no call
IdleProc == [pc |-> "idle", fn |-> "none", input |-> <<>>, err |-> FALSE, out |-> <<>>]
NoFrame == [processed |-> <<>>, markdown |-> <<>>, buf |-> <<>>]

\* what the goroutines hand to the two functions
ConcurrentStorages ==
    { CodeMacroText(FALSE, <<Param("language", <<"go">>)>>, <<>>, <<"a", "<", "b", ">", "c">>),
      TaskListText(<<TaskText(<<>>, <<"complete">>, <<"a", "\\", "_", "b">>)>>) }

ConcurrentDocs == { DocOf(<<FencedBlockOf(<<"go">>, <<"a", "\n">>)>>) }

\* no goroutine is in a call of the converter, and the client is in no call
Quiet == client.pc = "idle" /\ \A p \in Procs : procs[p].pc = "idle"

\* The API client: one call of a list function or of MovePage, with the
\* requests it has sent (wire) and what the server has answered
MaxRequests == 3
MaxPerResponse == 2
MaxVersion == 2

maxPerPage == 25

Min(a, b) == IF a <= b THEN a ELSE b

\* page, parent and space IDs a caller passes: two IDs, the empty string and
\* strings of white space
IDs == {<<"1">>, <<"2">>, <<>>, <<" ">>, <<"\t", " ">>}

Limits == -1..(MaxPerResponse + 1)

ListFns == {"ListPages", "GetChildPages", "ListSpaces"}

\* a page: its space and its version, <<>> for a page without one
NoPage == [spaceID |-> "", version |-> <<>>]

NoClient ==
    [pc |-> "idle", fn |-> "none", id |-> <<>>, parent |-> <<>>, limit |-> 0,
     perPage |-> 0, all |-> <<>>, served |-> 0, wire |-> <<>>, answers |-> <<>>,
     source |-> NoPage,
     target |-> NoPage, result |-> <<>>, err |-> "", panicked |-> FALSE]

Init ==
    /\ call = "none"
    /\ doc = NoDoc
    /\ storage = <<>>
    /\ ret = NoRet
    /\ procs = [p \in Procs |-> IdleProc]
    /\ frames = [p \in Procs |-> NoFrame]
    /\ pkg = PackageVars
    /\ client = NoClient

\* MarkdownToStorage(markdown), markdown.go 14-39.  A run of the program
\* converts one document: a call starts from the state after construction.
MarkdownToStorage ==
    /\ call = "none"
    /\ \E d \in Docs, convertErr \in BOOLEAN :
        /\ call' = "MarkdownToStorage"
        /\ doc' = d
        /\ storage' = MarkdownToStorageResult(d, convertErr)
        /\ ret' = [out |-> storage', convertErr |-> convertErr]
    /\ Quiet
    /\ UNCHANGED <<procs, frames, pkg, client>>

\* StorageToMarkdown(s) with the transducer's reply
StorageToMarkdownCall(s, reply) ==
    /\ call' = "StorageToMarkdown"
    /\ storage' = s
    /\ ret' = StorageToMarkdownResult(s, reply)

\* the replies of the transducer for the HTML the preprocessor made of s
Replies(s) == {Reply(TRUE, <<>>), Reply(FALSE, Transduce(Preprocess(s)))}

\* StorageToMarkdown on a page fetched from the platform
StorageToMarkdownFetched ==
    /\ call = "none"
    /\ \E s \in FetchedStorages : \E reply \in Replies(s) :
        /\ StorageToMarkdownCall(s, reply)
        /\ doc' = NoDoc
    /\ Quiet
    /\ UNCHANGED <<procs, frames, pkg, client>>

\* StorageToMarkdown, in a later run, on the storage that MarkdownToStorage
\* returned and the platform kept
StorageToMarkdownRendered ==
    /\ call = "MarkdownToStorage"
    /\ ~ret.convertErr
    /\ \E reply \in Replies(storage) : StorageToMarkdownCall(storage, reply)
    /\ UNCHANGED <<doc, procs, frames, pkg, client>>

\* StorageToMarkdown on a page without macros, for every Markdown text the
\* transducer may write
StorageToMarkdownPage ==
    /\ call = "none"
    /\ \E md \in MarkdownTexts :
        /\ StorageToMarkdownCall(Page, Reply(FALSE, md))
        /\ doc' = NoDoc
    /\ Quiet
    /\ UNCHANGED <<procs, frames, pkg, client>>

\* storage.go 223-243: the passes over the transducer's text
NormalizeText(markdown) ==
    fixNestedListSpacing(
        UnderscoreLoop(fixOverEscaping(fixCheckboxes(UnescapeString(markdown))), 0).md)

\* a variant of LocalsOf: the intermediate texts are kept in one place for
\* all calls
LocalsOf_PackageLevel(p) == 1

\* storage.go 124, 217 and markdown.go 31: processed, markdown and buf are
\* local variables, so the call a goroutine makes has a frame of its own
LocalsOf(p) == p

\* goroutine p calls StorageToMarkdown(s)
CallStorageToMarkdown(p) ==
    /\ call = "none" /\ client.pc = "idle"
    /\ procs[p].pc = "idle"
    /\ \E s \in ConcurrentStorages :
          procs' = [procs EXCEPT ![p] = [pc |-> "preprocess", fn |-> "StorageToMarkdown",
                                        input |-> s, err |-> FALSE, out |-> <<>>]]
    /\ UNCHANGED <<call, doc, storage, ret, frames, pkg, client>>

\* storage.go 124-215: the four rewrites, through the package-level matchers
PreprocessStep(p) ==
    /\ procs[p].pc = "preprocess"
    /\ frames' = [frames EXCEPT ![LocalsOf(p)].processed = Preprocess(procs[p].input)]
    /\ procs' = [procs EXCEPT ![p].pc = "convert"]
    /\ UNCHANGED <<call, doc, storage, ret, pkg, client>>

\* storage.go 217-220: the shared transducer converts processed
ConvertStep(p) ==
    /\ procs[p].pc = "convert"
    /\ \E reply \in {Reply(TRUE, <<>>),
                      Reply(FALSE, Transduce(frames[LocalsOf(p)].processed))} :
          IF reply.err
          THEN /\ procs' = [procs EXCEPT ![p].pc = "done", ![p].err = TRUE,
                                         ![p].out = <<>>]
               /\ UNCHANGED frames
          ELSE /\ frames' = [frames EXCEPT ![LocalsOf(p)].markdown = reply.md]
               /\ procs' = [procs EXCEPT ![p].pc = "normalize"]
    /\ UNCHANGED <<call, doc, storage, ret, pkg, client>>

\* storage.go 223-245
NormalizeStep(p) ==
    /\ procs[p].pc = "normalize"
    /\ procs' = [procs EXCEPT ![p].pc = "done",
                              ![p].out = NormalizeText(frames[LocalsOf(p)].markdown)]
    /\ UNCHANGED <<call, doc, storage, ret, frames, pkg, client>>

\* goroutine p calls MarkdownToStorage(markdown): markdown.go 16-29, the
\* parser and the renderer are made for the call
CallMarkdownToStorage(p) ==
    /\ call = "none" /\ client.pc = "idle"
    /\ procs[p].pc = "idle"
    /\ \E d \in ConcurrentDocs :
          procs' = [procs EXCEPT ![p] = [pc |-> "render", fn |-> "MarkdownToStorage",
                                        input |-> d, err |-> FALSE, out |-> <<>>]]
    /\ UNCHANGED <<call, doc, storage, ret, frames, pkg, client>>

\* markdown.go 31-32: md.Convert writes into buf, or fails
RenderStep(p) ==
    /\ procs[p].pc = "render"
    /\ \E convertErr \in BOOLEAN :
          /\ frames' = [frames EXCEPT ![LocalsOf(p)].buf =
                            IF convertErr THEN <<>> ELSE Walk(procs[p].input.ast, NoNode, NoNode)]
          /\ procs' = [procs EXCEPT ![p].pc = "rendered", ![p].err = convertErr]
    /\ UNCHANGED <<call, doc, storage, ret, pkg, client>>

\* markdown.go 32-38: the input on failure, the buffer otherwise
FinishRender(p) ==
    /\ procs[p].pc = "rendered"
    /\ procs' = [procs EXCEPT ![p].pc = "done",
                              ![p].out = IF procs[p].err THEN procs[p].input.markdown
                                         ELSE frames[LocalsOf(p)].buf]
    /\ UNCHANGED <<call, doc, storage, ret, frames, pkg, client>>

\* the caller has the result; the locals of the call are gone
Return(p) ==
    /\ procs[p].pc = "done"
    /\ procs' = [procs EXCEPT ![p] = IdleProc]
    /\ frames' = [frames EXCEPT ![LocalsOf(p)] = NoFrame]
    /\ UNCHANGED <<call, doc, storage, ret, pkg, client>>

\* ListPages(spaceID, limit, sort), markdown.go 1532-1545; GetChildPages
\* (1575-1588) and ListSpaces (1640-1644) begin the same way, ListSpaces
\* without an ID to check
ListCall ==
    /\ call = "none" /\ Quiet
    /\ client.pc = "idle"
    /\ \E fn \in ListFns, id \in IDs, limit \in Limits :
          IF fn # "ListSpaces" /\ TrimSpace(id) = <<>>
          THEN client' = [client EXCEPT !.pc = "done", !.fn = fn, !.id = id,
                                        !.limit = limit, !.err = "ID cannot be empty"]
          ELSE client' = [client EXCEPT !.pc = "loop", !.fn = fn, !.id = id,
                                        !.limit = limit,
                                        !.perPage = Min(limit, maxPerPage)]
    /\ UNCHANGED <<call, doc, storage, ret, procs, frames, pkg>>

\* markdown.go 1557: allPages = append(allPages, result.Results...)
Collected(all, results) == all \o results

\* markdown.go 1547-1565: one turn of the loop: the request, the answer of
\* the server (a failure, a body that does not parse, or n more items with or
\* without a next link), the append and the test that ends the loop
ListRequest ==
    /\ client.pc = "loop"
    /\ Len(client.wire) < MaxRequests
    /\ \E status \in {"ok", "failed", "unparsable"}, n \in 0..MaxPerResponse,
          next \in BOOLEAN :
          LET sent == Append(client.wire,
                             [method |-> "GET", id |-> client.id,
                              perPage |-> client.perPage,
                              collected |-> Len(client.all), version |-> 0])
              all == Collected(client.all, [k \in 1..n |-> client.served + k])
          IN  IF status # "ok"
              THEN /\ n = 0 /\ ~next
                   /\ client' = [client EXCEPT !.pc = "done", !.wire = sent,
                                                !.err = status]
              ELSE client' = [client EXCEPT
                                 !.pc = IF Len(all) >= client.limit \/ ~next
                                        THEN "trim" ELSE "loop",
                                 !.wire = sent, !.all = all,
                                 !.answers = Append(client.answers, [n |-> n, next |-> next]),
                                 !.served = client.served + n]
    /\ UNCHANGED <<call, doc, storage, ret, procs, frames, pkg>>

\* markdown.go 1567-1572: allPages[:limit] when there are more than limit;
\* the slice expression panics at run time for a negative limit
ListTrim ==
    /\ client.pc = "trim"
    /\ client' =
          IF Len(client.all) > client.limit
          THEN IF client.limit < 0
               THEN [client EXCEPT !.pc = "panicked", !.panicked = TRUE]
               ELSE [client EXCEPT !.pc = "done",
                                   !.result = SubSeq(client.all, 1, client.limit)]
          ELSE [client EXCEPT !.pc = "done", !.result = client.all]
    /\ UNCHANGED <<call, doc, storage, ret, procs, frames, pkg>>

\* MovePage(pageID, newParentID), markdown.go 1475-1480
MoveCall ==
    /\ call = "none" /\ Quiet
    /\ client.pc = "idle"
    /\ \E pageID \in IDs, newParentID \in IDs :
          client' = [client EXCEPT
                        !.fn = "MovePage", !.id = pageID, !.parent = newParentID,
                        !.pc = IF TrimSpace(pageID) = <<>> \/ TrimSpace(newParentID) = <<>>
                               THEN "done" ELSE "getSource",
                        !.err = IF TrimSpace(pageID) = <<>> THEN "pageID cannot be empty"
                                ELSE IF TrimSpace(newParentID) = <<>>
                                     THEN "newParentID cannot be empty" ELSE ""]
    /\ UNCHANGED <<call, doc, storage, ret, procs, frames, pkg>>

\* what the server may answer to a GET of a page
Pages ==
    {[spaceID |-> sp, version |-> v] :
        sp \in {"S", "T"}, v \in {<<>>} \cup {<<n>> : n \in 1..MaxVersion}}

GetRequest(id) == [method |-> "GET", id |-> id, perPage |-> 0, collected |-> 0, version |-> 0]

\* markdown.go 1483-1486: GetPage(pageID)
MoveGetSource ==
    /\ client.pc = "getSource"
    /\ \/ client' = [client EXCEPT !.pc = "done",
                                    !.wire = Append(client.wire, GetRequest(client.id)),
                                    !.err = "failed to get source page"]
       \/ \E page \in Pages :
             client' = [client EXCEPT !.pc = "getTarget",
                                      !.wire = Append(client.wire, GetRequest(client.id)),
                                      !.source = page]
    /\ UNCHANGED <<call, doc, storage, ret, procs, frames, pkg>>

\* a variant of CrossSpace: the spaces are not compared
CrossSpace_Unchecked(sourcePage, targetPage) == FALSE

\* markdown.go 1495
CrossSpace(sourcePage, targetPage) == sourcePage.spaceID # targetPage.spaceID

\* markdown.go 1506-1510
NewVersion(sourcePage) ==
    IF sourcePage.version # <<>> THEN sourcePage.version[1] + 1 ELSE 1

\* markdown.go 1489-1497: GetPage(newParentID) and the cross-space check
MoveGetTarget ==
    /\ client.pc = "getTarget"
    /\ \/ client' = [client EXCEPT !.pc = "done",
                                    !.wire = Append(client.wire, GetRequest(client.parent)),
                                    !.err = "failed to get target parent page"]
       \/ \E page \in Pages :
             client' = [client EXCEPT
                           !.pc = IF CrossSpace(client.source, page) THEN "done" ELSE "update",
                           !.wire = Append(client.wire, GetRequest(client.parent)),
                           !.target = page,
                           !.err = IF CrossSpace(client.source, page)
                                   THEN "cross-space moves are not supported" ELSE ""]
    /\ UNCHANGED <<call, doc, storage, ret, procs, frames, pkg>>

\* markdown.go 1500-1527: the update request is built and sent; the server
\* accepts it or not
MoveUpdate ==
    /\ client.pc = "update"
    /\ \E ok \in BOOLEAN :
          client' = [client EXCEPT
                        !.pc = "done",
                        !.wire = Append(client.wire,
                                        [method |-> "PUT", id |-> client.id, perPage |-> 0,
                                         collected |-> 0,
                                         version |-> NewVersion(client.source)]),
                        !.err = IF ok THEN "" ELSE "update page request failed",
                        !.result = IF ok THEN <<client.id>> ELSE <<>>]
    /\ UNCHANGED <<call, doc, storage, ret, procs, frames, pkg>>

NextForward == MarkdownToStorage
NextReverse == StorageToMarkdownFetched
NextRoundTrip == MarkdownToStorage \/ StorageToMarkdownRendered
NextNormalize == StorageToMarkdownPage
NextConcurrent ==
    \E p \in Procs :
        \/ CallStorageToMarkdown(p)
        \/ PreprocessStep(p)
        \/ ConvertStep(p)
        \/ NormalizeStep(p)
        \/ CallMarkdownToStorage(p)
        \/ RenderStep(p)
        \/ FinishRender(p)
        \/ Return(p)
NextList == ListCall \/ ListRequest \/ ListTrim
NextMove == MoveCall \/ MoveGetSource \/ MoveGetTarget \/ MoveUpdate
Next ==
    \/ MarkdownToStorage
    \/ StorageToMarkdownFetched
    \/ StorageToMarkdownRendered
    \/ StorageToMarkdownPage
    \/ NextConcurrent
    \/ NextList
    \/ NextMove

SpecForward == Init /\ [][NextForward]_vars
SpecReverse == Init /\ [][NextReverse]_vars
SpecRoundTrip == Init /\ [][NextRoundTrip]_vars
SpecNormalize == Init /\ [][NextNormalize]_vars
SpecConcurrent == Init /\ [][NextConcurrent]_vars
SpecList == Init /\ [][NextList]_vars
SpecMove == Init /\ [][NextMove]_vars
Spec == Init /\ [][Next]_vars

----------------------------------------------------------------------------
(* Properties                                                              *)

\* C1: MarkdownToStorage is total: for every input it returns a string and
\* reports no failure, and when the conversion step fails the string it
\* returns is the original Markdown text, unchanged.
C1_MarkdownToStorageTotal ==
    call = "MarkdownToStorage" =>
        /\ ret.out \in Seq(STRING)
        /\ ret.convertErr => ret.out = doc.markdown

\* a failed conversion of a document that is not empty
C1_FallbackReturned ==
    /\ call = "MarkdownToStorage"
    /\ ret.convertErr
    /\ doc.markdown # <<>>
    /\ ret.out = doc.markdown

\* C2: StorageToMarkdown returns an error if and only if the transducer
\* reports a failure, and then the returned string is empty; in every other
\* case (malformed HTML and unrecognized macros too) it returns a string and
\* no error, and for the empty input the empty string.
C2_ErrorOnlyFromTransducer ==
    call = "StorageToMarkdown" =>
        /\ ret.err <=> ret.reply.err
        /\ ret.err => ret.md = <<>>
        /\ ~ret.err => ret.md \in Seq(STRING)
        /\ (~ret.err /\ storage = <<>>) => ret.md = <<>>

\* the transducer fails on a page that is not empty
C2_TransducerFailed ==
    /\ call = "StorageToMarkdown"
    /\ ret.reply.err
    /\ ret.err
    /\ storage # <<>>
    /\ ret.md = <<>>

\* the last block of a document
LastBlock(d) == d.ast.kids[Len(d.ast.kids)]

\* the lines of the last fenced block of a Markdown text that ends with a
\* closing fence: what stands between the line of the opening fence and the
\* closing fence
LastFencedBody(md) ==
    LET closing == Len(md) - 2
        opening == CHOOSE i \in 1..(closing - 1) :
                       /\ StartsAt(md, i, Fence)
                       /\ \A j \in (i + 1)..(closing - 1) : ~StartsAt(md, j, Fence)
    IN  IF /\ closing > 1
           /\ StartsAt(md, closing, Fence)
           /\ \E i \in 1..(closing - 1) : StartsAt(md, i, Fence)
        THEN SubSeq(md, SkipNot(md, opening + 3, "\n") + 1, closing - 1)
        ELSE <<"no fenced block">>

\* a round trip has ended on a document whose last block is a fenced code
\* block with a body
FencedRoundTripDone ==
    /\ call = "StorageToMarkdown"
    /\ ~ret.err
    /\ doc # NoDoc
    /\ LastBlock(doc).kind = "FencedCodeBlock"
    /\ LastBlock(doc).t # <<>>

\* C3: for a fenced code block whose body holds <, >, &, text that reads as
\* an entity, backslashes or quotes, StorageToMarkdown(MarkdownToStorage(D))
\* yields a fenced block whose body is byte-identical to the original body.
C3_FencedBodyRoundTrips ==
    FencedRoundTripDone => LastFencedBody(ret.md) = LastBlock(doc).t

\* The fenced code blocks of a Markdown text, read line by line: a line that
\* starts with a fence, after an optional blockquote mark, opens a block and
\* the next such line closes it.  Each block is <<first, last>>, from the
\* opening fence to the end of the closing line; a block that is not closed
\* runs to the end of the text.
FenceLineAt(s, i) == StartsAt(s, i, Fence) \/ StartsAt(s, i, <<">", " ">> \o Fence)

RECURSIVE FencedFrom(_, _, _)
FencedFrom(s, i, open) ==
    IF i > Len(s) THEN (IF open = 0 THEN <<>> ELSE <<(<<open, Len(s)>>)>>)
    ELSE LET e == SkipNot(s, i, "\n")
         IN  IF FenceLineAt(s, i)
             THEN IF open = 0 THEN FencedFrom(s, e + 1, i)
                  ELSE <<(<<open, e - 1>>)>> \o FencedFrom(s, e + 1, 0)
             ELSE FencedFrom(s, e + 1, open)

FencedRanges(s) == FencedFrom(s, 1, 0)

\* the text of each fenced block, in order
FencedTextsOf(s) ==
    LET r == FencedRanges(s) IN [k \in 1..Len(r) |-> SubSeq(s, r[k][1], r[k][2])]

\* position i lies in a fenced block
InFenced(s, i) ==
    LET r == FencedRanges(s) IN \E k \in 1..Len(r) : r[k][1] <= i /\ i <= r[k][2]

\* the normalizer has returned
Normalized == call = "StorageToMarkdown" /\ ~ret.err

\* C4: for every Markdown string the normalizer receives from the
\* transducer, the bytes of each fenced code block (also one inside a
\* blockquote, also one whose language tag holds a non-letter) are the same
\* in the result of StorageToMarkdown: no pass changes a byte inside a code
\* block.
C4_CodeBlocksUntouched ==
    Normalized => FencedTextsOf(ret.md) = FencedTextsOf(ret.transduced)

\* the number of backslashes in a text
Backslashes(s) == Cardinality({i \in 1..Len(s) : s[i] = "\\"})

\* an escaped underscore with a letter or digit right before and right after
EscapedIntraWord(s) ==
    \E i \in 1..(Len(s) - 3) :
        /\ AlnumEnd(s[i])
        /\ s[i + 1] = "\\"
        /\ s[i + 2] = "_"
        /\ AlnumStart(s[i + 3])

\* C6: when StorageToMarkdown returns, the Markdown holds no escaped
\* underscore with an ASCII letter or digit right before and right after it,
\* whatever the number of underscores in an identifier and whatever precedes
\* it (several fenced code blocks too); the loop ends, and each of its
\* iterations removes at least one backslash.
C6_NoIntraWordEscape ==
    Normalized =>
        /\ ~EscapedIntraWord(ret.md)
        /\ ret.iterations <= Backslashes(ret.escaped) - Backslashes(ret.md)

\* an identifier after two fenced blocks needed more than one pass
C6_SeveralPasses ==
    /\ Normalized
    /\ ret.iterations >= 2
    /\ Len(FencedRanges(ret.md)) >= 2
    /\ EscapedIntraWord(ret.transduced)

\* an escaped checkbox at position i
CheckboxArtifactAt(s, i) ==
    \/ StartsAt(s, i, <<"\\", "[", " ", "]">>)
    \/ StartsAt(s, i, <<"\\", "[", "x", "]">>)
    \/ StartsAt(s, i, <<"\\", "[", "X", "]">>)

\* C7: for every Markdown text of the transducer, the result of
\* StorageToMarkdown holds none of \[ ], \[x], \[X] outside fenced code,
\* also when the transducer doubled or tripled the backslash.
C7_NoCheckboxArtifact ==
    Normalized =>
        \A i \in 1..Len(ret.md) : CheckboxArtifactAt(ret.md, i) => InFenced(ret.md, i)

\* the number of places where lit stands in s
Occurrences(s, lit) == Cardinality({i \in 1..Len(s) : StartsAt(s, i, lit)})

\* a task list whose items hold no list
IsFlatTaskList(n) ==
    /\ n.kind = "List"
    /\ isTaskList(n)
    /\ \A k \in 1..Len(n.kids) : ~HasKind(n.kids[k].kids, "List")

\* every list of the document is a flat task list, and there is one
FlatTaskDoc(d) ==
    /\ \E k \in 1..Len(d.ast.kids) : d.ast.kids[k].kind = "List"
    /\ \A k \in 1..Len(d.ast.kids) :
          d.ast.kids[k].kind = "List" => IsFlatTaskList(d.ast.kids[k])

\* an item is checked when a checkbox of it, its own or one of a paragraph
\* or text block of it, is checked
ItemChecked(item) ==
    \E g \in 1..Len(item.kids) :
        \/ item.kids[g].kind = "TaskCheckBox" /\ item.kids[g].a = "checked"
        \/ \E h \in 1..Len(item.kids[g].kids) :
              /\ item.kids[g].kids[h].kind = "TaskCheckBox"
              /\ item.kids[g].kids[h].a = "checked"

\* the checked state of the items of the lists among blocks k.., in order
RECURSIVE CheckedFrom(_, _)
CheckedFrom(blocks, k) ==
    IF k > Len(blocks) THEN <<>>
    ELSE (IF blocks[k].kind = "List"
          THEN [j \in 1..Len(blocks[k].kids) |-> ItemChecked(blocks[k].kids[j])]
          ELSE <<>>)
         \o CheckedFrom(blocks, k + 1)

\* for each <ac:task-status> of a storage text, in order: is it complete
RECURSIVE StatusesFrom(_, _)
StatusesFrom(s, i) ==
    LET j == IndexFrom(s, i, Tag("ac:task-status"))
    IN  IF j = 0 THEN <<>>
        ELSE <<StartsAt(s, j + 3, <<"complete">> \o EndTag("ac:task-status"))>>
             \o StatusesFrom(s, j + 3)

\* for each <li> of an HTML text, in order: TRUE when it starts with [x],
\* FALSE when it starts with [ ]
RECURSIVE BoxesFrom(_, _)
BoxesFrom(h, i) ==
    LET j == IndexFrom(h, i, Tag("li"))
    IN  IF j = 0 THEN <<>>
        ELSE <<(IF StartsAt(h, j + 3, <<"[", "x", "]", " ">>) THEN TRUE
                ELSE IF StartsAt(h, j + 3, <<"[", " ", "]", " ">>) THEN FALSE
                ELSE "no box")>>
             \o BoxesFrom(h, j + 3)

\* C5: for a flat task list MarkdownToStorage emits one <ac:task> per list
\* item, with status complete iff the item's checkbox is checked, and the
\* preprocessor maps each task back to a list item that starts with [x] iff
\* its status is complete: forward then reverse keeps the number, the order
\* and the checked state of the tasks.
C5_TasksRoundTrip ==
    (call = "StorageToMarkdown" /\ doc # NoDoc /\ FlatTaskDoc(doc)) =>
        /\ Occurrences(storage, Tag("ac:task")) = Len(CheckedFrom(doc.ast.kids, 1))
        /\ StatusesFrom(storage, 1) = CheckedFrom(doc.ast.kids, 1)
        /\ BoxesFrom(ret.processed, 1) = CheckedFrom(doc.ast.kids, 1)

\* a node with the text of every raw HTML node and HTML block in it removed
RECURSIVE WithoutHTMLText(_)
WithoutHTMLText(node) ==
    [node EXCEPT !.t = IF node.kind \in {"RawHTML", "HTMLBlock"} THEN <<>> ELSE @,
                 !.kids = [k \in 1..Len(node.kids) |-> WithoutHTMLText(node.kids[k])]]

\* the number of nodes of a kind in a tree
RECURSIVE CountKind(_, _)
RECURSIVE CountKindIn(_, _, _)
CountKind(node, kind) ==
    (IF node.kind = kind THEN 1 ELSE 0) + CountKindIn(node.kids, 1, kind)
CountKindIn(kids, k, kind) ==
    IF k > Len(kids) THEN 0 ELSE CountKind(kids[k], kind) + CountKindIn(kids, k + 1, kind)

\* MarkdownToStorage has returned what the renderer wrote
Rendered == call = "MarkdownToStorage" /\ ~ret.convertErr

\* C8: MarkdownToStorage writes no byte of a raw inline HTML node, and for
\* each HTML block it writes the fixed comment <!-- raw HTML omitted --> once
\* and no byte of the block: what it writes is what it writes for the same
\* document with the text of these nodes removed, and holds as many comments
\* as the document holds HTML blocks.
C8_RawHTMLOmitted ==
    Rendered =>
        /\ ret.out = Walk(WithoutHTMLText(doc.ast), NoNode, NoNode)
        /\ Occurrences(ret.out, HTMLOmitted) = CountKind(doc.ast, "HTMLBlock")
        /\ Occurrences(ret.out, HTMLOmitted \o <<"\n">>) = CountKind(doc.ast, "HTMLBlock")

\* a document with raw inline HTML and an HTML block has been rendered
C8_HTMLRendered ==
    /\ Rendered
    /\ CountKind(doc.ast, "HTMLBlock") = 1
    /\ CountKind(doc.ast, "RawHTML") = 2
    /\ Occurrences(ret.out, HTMLOmitted) = 1

\* C9: what lies outside the matches of the recognized macro shapes is in the
\* preprocessor's output unchanged; in particular an <ac:task> of an
\* <ac:task-list> that does not match the task grammar, such as one with an
\* <ac:task-id> before its status, is passed through and not dropped.
C9_UnmatchedTaskKept ==
    call = "StorageToMarkdown" =>
        /\ Occurrences(ret.processed, Tag("ac:task-id"))
               = Occurrences(storage, Tag("ac:task-id"))
        /\ \A i \in 1..Len(storage) :
              (StartsAt(storage, i, Tag("ac:task") \o Tag("ac:task-id"))
               /\ TaskAt(storage, i).end = 0)
              => Contains(ret.processed, Tag("ac:task") \o Tag("ac:task-id"))

\* The three rewrites of the preprocessor; the code rewrite is the rewrite of
\* macros with a body followed by the rewrite of macros without one.
RewriteNames == {"code", "taskList", "image"}

ApplyRewrite(name, s) ==
    IF name = "code" THEN emptyCodeRewrite(codeRewrite(s))
    ELSE IF name = "taskList" THEN taskListRewrite(s)
    ELSE imageRewrite(s)

\* the orders in which the three rewrites can run
Orders == {o \in [1..3 -> RewriteNames] : \A a, b \in 1..3 : a # b => o[a] # o[b]}

ApplyOrder(o, s) == ApplyRewrite(o[3], ApplyRewrite(o[2], ApplyRewrite(o[1], s)))

\* the bodies of the code macros of a storage text
RECURSIVE CodeBodiesFrom(_, _)
CodeBodiesFrom(s, i) ==
    LET hits == {j \in i..Len(s) : CodeMacroAt(s, j).end # 0}
        m == CodeMacroAt(s, Least(hits))
    IN  IF hits = {} THEN {} ELSE {m.code} \cup CodeBodiesFrom(s, m.end)

\* a code body holds the opening or the closing tag of a macro element
CodeBodyHoldsMacro(s) ==
    \E c \in CodeBodiesFrom(s, 1) : \E i \in 1..(Len(c) - 1) :
        /\ c[i] = "<"
        /\ \/ c[i + 1] \in TagWords \ {"h1", "h2"}
           \/ c[i + 1] = "/" /\ i + 2 <= Len(c) /\ c[i + 2] \in TagWords \ {"h1", "h2"}

\* C10 as stated: the code-macro, task-list and image rewrites commute: in
\* any order they give the intermediate HTML that StorageToMarkdown's order
\* gives, also when a code body holds text shaped like a task-list or image
\* macro.
C10_RewritesCommute ==
    call = "StorageToMarkdown" =>
        \A o \in Orders : ApplyOrder(o, storage) = ret.processed

\* C10 as amended: the rewrites give the intermediate HTML of
\* StorageToMarkdown's order in any order when no code body holds the tag of
\* a macro element, and in any order that runs the code rewrite first
\* otherwise.
C10_CommuteOutsideCodeBodies ==
    call = "StorageToMarkdown" =>
        \A o \in Orders :
            (o[1] = "code" \/ ~CodeBodyHoldsMacro(storage))
                => ApplyOrder(o, storage) = ret.processed

\* a code body holds an image macro, and the order decides the result
C10_OrderMatters ==
    /\ call = "StorageToMarkdown"
    /\ CodeBodyHoldsMacro(storage)
    /\ Contains(storage, CDataOpen \o ImageMacroText)
    /\ \E o \in Orders : ApplyOrder(o, storage) # ret.processed
    /\ ApplyOrder([k \in 1..3 |-> <<"code", "image", "taskList">>[k]], storage)
           = ret.processed

\* the code macro as the platform stores it, for a language and a body
StoredCodeMacro(lang, body) ==
    <<"<", "ac:structured-macro", " ", "ac:name=", "\"", "code", "\"", ">",
      "<", "ac:parameter", " ", "ac:name=", "\"", "language", "\"", ">">>
    \o lang
    \o <<"<", "/", "ac:parameter", ">", "<", "ac:plain-text-body", ">",
         "<", "!", "[", "CDATA", "[">>
    \o body
    \o <<"]", "]", ">", "<", "/", "ac:plain-text-body", ">",
         "<", "/", "ac:structured-macro", ">", "\n">>

IsCodeBlock(n) == n.kind \in {"FencedCodeBlock", "CodeBlock"}

\* the language a code block declares: none for an indented block and for a
\* fence without an info string
DeclaredLanguage(n) ==
    IF n.kind = "FencedCodeBlock" /\ n.u # NoLanguage THEN n.u ELSE <<"none">>

\* C12: for every fenced or indented code block MarkdownToStorage emits a
\* code structured-macro whose language parameter is the fence's language, or
\* none when the block declares no language (always none for an indented
\* block), and whose CDATA body is the block's source lines byte for byte,
\* with no escaping; there is one macro for each block.
C12_CodeBlockWrittenRaw ==
    Rendered =>
        /\ \A k \in 1..Len(doc.ast.kids) :
              IsCodeBlock(doc.ast.kids[k]) =>
                  Contains(ret.out, StoredCodeMacro(DeclaredLanguage(doc.ast.kids[k]),
                                                    doc.ast.kids[k].t))
        /\ Occurrences(ret.out, <<"<", "ac:structured-macro", " ", "ac:name=", "\"",
                                  "code", "\"", ">">>)
               = CountKind(doc.ast, "FencedCodeBlock") + CountKind(doc.ast, "CodeBlock")

\* a fence with a language and a fence without one, whose body holds <, &
\* and >, have been rendered
C12_TwoFencesRendered ==
    /\ Rendered
    /\ Len(doc.ast.kids) = 2
    /\ doc.ast.kids[1].kind = "FencedCodeBlock"
    /\ doc.ast.kids[1].u = <<"go">>
    /\ doc.ast.kids[2].kind = "FencedCodeBlock"
    /\ doc.ast.kids[2].u = NoLanguage
    /\ Contains(doc.ast.kids[2].t, <<"&">>)
    /\ Contains(ret.out, <<"a", " ", "<", " ", "b", " ", "&", " ", "c", ">", "\n", "]", "]", ">">>)

\* s ends with the literal
EndsWith(s, lit) == Len(s) >= Len(lit) /\ StartsAt(s, Len(s) - Len(lit) + 1, lit)

\* a value without its leading and trailing white space
Trimmed(v) ==
    LET inked == {k \in 1..Len(v) : v[k] \notin {" ", "\t", "\n", "\r"}}
    IN  IF inked = {} THEN <<>>
        ELSE SubSeq(v, CHOOSE a \in inked : \A k \in inked : a <= k,
                       CHOOSE b \in inked : \A k \in inked : k <= b)

\* parameters of a code macro, as name and value
MacroParams ==
    {[name |-> "language", value |-> v] : v \in {<<"go">>, <<>>, <<" ", "go", " ">>}}
    \cup {[name |-> "title", value |-> <<"T">>]}

NoBody == <<"no body">>

\* a code macro of either shape: with a plain-text body, or without a body
EitherShape(nameLast, ps, gap, body) ==
    LET params == [k \in 1..Len(ps) |-> Param(ps[k].name, ps[k].value)]
    IN  IF body = NoBody
        THEN MacroOpen("code", nameLast) \o gap \o Joined(params, gap)
             \o EndTag("ac:structured-macro")
        ELSE CodeMacroText(nameLast, params, gap, body)

\* the value of the first language parameter, trimmed; empty when there is none
StatedLanguage(ps) ==
    LET at == {k \in 1..Len(ps) : ps[k].name = "language"}
    IN  IF at = {} THEN <<>> ELSE Trimmed(ps[CHOOSE k \in at : \A m \in at : k <= m].value)

\* the block the rewrite is to leave for a macro
StatedBlock(ps, body) ==
    (IF StatedLanguage(ps) # <<>>
     THEN <<"<", "pre", ">", "<", "code", " ", "class=", "\"", "language", "-">>
          \o StatedLanguage(ps) \o <<"\"", ">">>
     ELSE <<"<", "pre", ">", "<", "code", ">">>)
    \o (IF body = NoBody THEN <<>>
        ELSE Cat([k \in 1..Len(body) |->
                    IF body[k] = "<" THEN <<"&", "lt", ";">>
                    ELSE IF body[k] = ">" THEN <<"&", "gt", ";">>
                    ELSE <<body[k]>>]))
    \o <<"<", "/", "code", ">", "<", "/", "pre", ">">>

\* C13: a code macro, with a plain-text body or without any body, is rewritten
\* to <pre><code class="language-X"> exactly when it has a language parameter
\* whose trimmed value X is not empty, and to <pre><code> otherwise; no code
\* macro of either shape is left as ac: markup.
C13_LanguageClassIffStated ==
    call = "StorageToMarkdown" =>
        \A nameLast \in BOOLEAN, ps \in SeqsUpTo(MacroParams, 2),
           gap \in {<<>>, <<"\n">>, <<"\n", " ">>},
           body \in FetchedBodies \cup {NoBody} :
            EndsWith(storage, EitherShape(nameLast, ps, gap, body)) =>
                /\ EndsWith(ret.processed, StatedBlock(ps, body))
                /\ ~Contains(ret.processed, <<"<", "ac:structured-macro">>)

\* a macro without a body, whose language is padded with spaces and whose
\* parts are a line apart, has been rewritten to an empty block of that
\* language
C13_PaddedLanguageRewritten ==
    /\ call = "StorageToMarkdown"
    /\ storage = <<"<", "ac:structured-macro", " ", "ac:name=", "\"", "code", "\"", ">",
                   "\n", "<", "ac:parameter", " ", "ac:name=", "\"", "language", "\"",
                   ">", " ", "go", " ", "<", "/", "ac:parameter", ">", "\n",
                   "<", "/", "ac:structured-macro", ">">>
    /\ ret.processed = <<"<", "pre", ">", "<", "code", " ", "class=", "\"", "language",
                         "-", "go", "\"", ">", "<", "/", "code", ">", "<", "/", "pre", ">">>

\* the names of the elements s opens with a tag of one of the given names,
\* in the order of the text
RECURSIVE OpenedFrom(_, _, _)
OpenedFrom(s, i, names) ==
    LET hits == {j \in i..(Len(s) - 1) : s[j] = "<" /\ s[j + 1] \in names}
        j == Least(hits)
    IN  IF hits = {} THEN <<>> ELSE <<s[j + 1]>> \o OpenedFrom(s, j + 2, names)

ListElements == {"ul", "ol", "ac:task-list"}

\* an item holds a checkbox itself, or in a paragraph or text block of its own
ItemHoldsCheckBox(item) ==
    \E g \in 1..Len(item.kids) :
        \/ item.kids[g].kind = "TaskCheckBox"
        \/ /\ item.kids[g].kind \in {"Paragraph", "TextBlock"}
           /\ \E h \in 1..Len(item.kids[g].kids) : item.kids[g].kids[h].kind = "TaskCheckBox"

\* the element a list is to be written as, from its own items alone
StatedListElement(list) ==
    IF \E c \in 1..Len(list.kids) :
          list.kids[c].kind = "ListItem" /\ ItemHoldsCheckBox(list.kids[c])
    THEN "ac:task-list"
    ELSE IF list.a = "ordered" THEN "ol" ELSE "ul"

\* the elements of the lists of a tree, each list before the lists in it
RECURSIVE StatedLists(_)
RECURSIVE StatedListsIn(_, _)
StatedLists(node) ==
    (IF node.kind = "List" THEN <<StatedListElement(node)>> ELSE <<>>)
    \o StatedListsIn(node.kids, 1)
StatedListsIn(kids, k) ==
    IF k > Len(kids) THEN <<>> ELSE StatedLists(kids[k]) \o StatedListsIn(kids, k + 1)

RECURSIVE TaskOpenings(_, _)
TaskOpenings(s, i) ==
    LET hits == {j \in i..Len(s) : StartsAt(s, j, <<"<", "ac:task", ">">>)}
        j == Least(hits)
    IN  IF hits = {} THEN <<>>
        ELSE <<[head |-> SubSeq(s, j + 3, j + 6),
                status |-> SubSeq(s, j + 7, j + 7),
                tail |-> SubSeq(s, j + 8, j + 11)]>>
             \o TaskOpenings(s, j + 3)

\* the status an item is to carry: complete for a checked box, incomplete for
\* an unchecked box and for no box
StatedStatus(item) ==
    IF \E g \in 1..Len(item.kids) :
          \/ item.kids[g].kind = "TaskCheckBox" /\ item.kids[g].a = "checked"
          \/ \E h \in 1..Len(item.kids[g].kids) :
                /\ item.kids[g].kids[h].kind = "TaskCheckBox"
                /\ item.kids[g].kids[h].a = "checked"
    THEN "complete" ELSE "incomplete"

\* the statuses of the items of the task lists of a tree, in document order
RECURSIVE StatedStatuses(_, _)
RECURSIVE StatedStatusesIn(_, _, _)
StatedStatuses(node, parent) ==
    (IF node.kind = "ListItem" /\ StatedListElement(parent) = "ac:task-list"
     THEN <<StatedStatus(node)>> ELSE <<>>)
    \o StatedStatusesIn(node.kids, 1, node)
StatedStatusesIn(kids, k, parent) ==
    IF k > Len(kids) THEN <<>>
    ELSE StatedStatuses(kids[k], parent) \o StatedStatusesIn(kids, k + 1, parent)

\* C15: every <ac:task> written holds one <ac:task-status>, right after its
\* opening, whose value is exactly complete or incomplete; there are as many
\* statuses as tasks; the value is complete for a checked box and incomplete
\* for an unchecked box and for an item of a task list that has no box.
C15_OneStatusPerTask ==
    Rendered =>
        LET tasks == TaskOpenings(ret.out, 1)
        IN  /\ \A k \in 1..Len(tasks) :
                  /\ tasks[k].head = <<"\n", "<", "ac:task-status", ">">>
                  /\ tasks[k].status \in {<<"complete">>, <<"incomplete">>}
                  /\ tasks[k].tail = <<"<", "/", "ac:task-status", ">">>
            /\ Occurrences(ret.out, <<"<", "ac:task-status", ">">>) = Len(tasks)
            /\ Occurrences(ret.out, <<"<", "/", "ac:task-status", ">">>) = Len(tasks)
            /\ [k \in 1..Len(tasks) |-> tasks[k].status[1]]
                   = StatedStatuses(doc.ast, NoNode)

\* a list of a checked item and an item without a box has been rendered as
\* two tasks
C15_BoxlessItemIncomplete ==
    /\ Rendered
    /\ Len(doc.ast.kids) = 1
    /\ doc.ast.kids[1].kind = "List"
    /\ Len(doc.ast.kids[1].kids) = 2
    /\ ItemHoldsCheckBox(doc.ast.kids[1].kids[1])
    /\ ~ItemHoldsCheckBox(doc.ast.kids[1].kids[2])
    /\ Occurrences(ret.out, <<"<", "ac:task", ">">>) = 2
    /\ Contains(ret.out, <<"<", "ac:task-status", ">", "complete">>)
    /\ Contains(ret.out, <<"<", "ac:task-status", ">", "incomplete">>)

\* the opening tags of the table cells of s, without the angle brackets, in
\* the order of the text
RECURSIVE CellOpenings(_, _)
CellOpenings(s, i) ==
    LET hits == {j \in i..(Len(s) - 1) : s[j] = "<" /\ s[j + 1] \in {"th", "td"}}
        j == Least(hits)
        g == SkipNot(s, j, ">")
    IN  IF hits = {} THEN <<>> ELSE <<SubSeq(s, j + 1, g - 1)>> \o CellOpenings(s, g)

\* the opening tag a cell is to get in a row of the given kind
StatedCell(cell, rowKind) ==
    <<IF rowKind = "TableHeader" THEN "th" ELSE "td">>
    \o (CASE cell.a = "left" -> <<" ", "align=", "\"", "left", "\"">>
          [] cell.a = "center" -> <<" ", "align=", "\"", "center", "\"">>
          [] cell.a = "right" -> <<" ", "align=", "\"", "right", "\"">>
          [] OTHER -> <<>>)

\* the stated opening tags of the cells of the tables among the blocks
RECURSIVE StatedCells(_, _)
StatedCells(blocks, k) ==
    IF k > Len(blocks) THEN <<>>
    ELSE (IF blocks[k].kind = "Table"
          THEN Cat([r \in 1..Len(blocks[k].kids) |->
                       [c \in 1..Len(blocks[k].kids[r].kids) |->
                           StatedCell(blocks[k].kids[r].kids[c], blocks[k].kids[r].kind)]])
          ELSE <<>>)
         \o StatedCells(blocks, k + 1)

BlankBeforeMarker(s, i) ==
    LET k == SkipBlank(s, i)
        m == SkipBlank(s, k + 1)
        d == SkipDigits(s, m)
    IN  /\ i = 1 \/ (i - 1 <= Len(s) /\ s[i - 1] = "\n")
        /\ k <= Len(s) /\ s[k] = "\n"
        /\ m > k + 1 /\ m <= Len(s)
        /\ \/ s[m] \in {"-", "*"}
           \/ d > m /\ d <= Len(s) /\ s[d] = "."

\* the lexemes of the blank lines that come right before an indented marker
BlankLexemes(s) ==
    UNION {i..SkipBlank(s, i) : i \in {j \in 1..Len(s) : BlankBeforeMarker(s, j)}}

\* the text without those lines
Tightened(s) ==
    LET kept == (1..Len(s)) \ BlankLexemes(s)
    IN  [n \in 1..Cardinality(kept) |->
            s[CHOOSE j \in kept : Cardinality({x \in kept : x <= j}) = n]]

\* C17: every blank line of the text handed to fixNestedListSpacing, empty or
\* of spaces and tabs only, that comes right before an indented list marker
\* (-, * or N.) is removed, and nothing else is: the result is the text
\* without those lines.
C17_BlankBeforeNestedRemoved ==
    Normalized => ret.md = Tightened(UnderscoreLoop(ret.escaped, 0).md)

\* C20: after the transducer and entity decoding the passes run in this
\* order: escape-collapsing outside code fences (fixOverEscaping), then the
\* checkbox fix, then the intra-word underscore fix, then the nested-list
\* spacing fix; the checkbox fix works on text whose doubled and tripled
\* backslashes are already collapsed, so the result is the one this order
\* gives.
C20_PassesInStatedOrder ==
    Normalized =>
        ret.md = fixNestedListSpacing(
                     UnderscoreLoop(fixCheckboxes(fixOverEscaping(ret.decoded)), 0).md)

\* what a call returns when it runs alone, for the input and the outcome
\* (failure or not) of its conversion step
AloneResult(fn, input, err) ==
    IF fn = "MarkdownToStorage"
    THEN [out |-> MarkdownToStorageResult(input, err), err |-> err]
    ELSE LET r == StorageToMarkdownResult(
                      input, Reply(err, IF err THEN <<>> ELSE Transduce(Preprocess(input))))
         IN  [out |-> r.md, err |-> r.err]

\* C11: the two functions keep no state between calls: the package-level
\* matchers and the shared transducer are as initialized at every moment, a
\* goroutine that is in no call has left nothing behind, and under every
\* interleaving a finished call has the result it has when it runs alone.
C11_CallsIndependent ==
    /\ pkg = PackageVars
    /\ \A p \in Procs :
          /\ procs[p].pc = "idle" => frames[p] = NoFrame
          /\ procs[p].pc = "done" =>
                /\ procs[p].out = AloneResult(procs[p].fn, procs[p].input, procs[p].err).out
                /\ procs[p].err = AloneResult(procs[p].fn, procs[p].input, procs[p].err).err

\* one goroutine has finished StorageToMarkdown on a code macro while another
\* is in the middle of StorageToMarkdown on a task list, each with its own
\* intermediate text
C11_TwoCallsInterleaved ==
    /\ procs[1].pc = "done"
    /\ procs[1].fn = "StorageToMarkdown"
    /\ ~procs[1].err
    /\ Contains(procs[1].input, <<"ac:structured-macro">>)
    /\ Contains(procs[1].out, <<"a", "<", "b", ">", "c">>)
    /\ procs[2].pc = "normalize"
    /\ Contains(procs[2].input, <<"ac:task-list">>)
    /\ frames[2].markdown # <<>>
    /\ frames[1].markdown # frames[2].markdown

\* a call of one of the three list functions has ended
Listed == client.fn \in ListFns /\ client.pc \in {"done", "panicked"}

\* C18: ListPages, GetChildPages and ListSpaces never return more than limit
\* items, for every limit (0 and negative limits too) and every sequence of
\* answers of the server, and never panic; what they return is the items of
\* the successive answers in the order the server gave them, cut at limit;
\* each request after the first is sent only while fewer than limit items are
\* collected and the answer before it had a next link.
C18_ListWithinLimit ==
    /\ client.fn \in ListFns => ~client.panicked
    /\ Listed =>
          /\ Len(client.result) <= (IF client.limit < 0 THEN 0 ELSE client.limit)
          /\ client.err = "" =>
                client.result = [k \in 1..Min(client.served, client.limit) |-> k]
    /\ client.fn \in ListFns =>
          \A k \in 2..Len(client.wire) :
              /\ client.wire[k].collected < client.limit
              /\ client.answers[k - 1].next

\* the requests sent so far that update a page
Updates == {k \in 1..Len(client.wire) : client.wire[k].method = "PUT"}

\* the number of a page's version; a page without a version counts as 0
VersionNumber(page) == IF page.version = <<>> THEN 0 ELSE page.version[1]

\* C19: MovePage sends the update only after the source page and the target
\* parent page were both fetched successfully, in this order, and are in the
\* same space; the update carries the source page's version number plus one.
\* With an empty or white-space page ID or parent ID it ends with an error
\* and no request; for a move across spaces it ends with an error after the
\* two GETs and no update.
C19_UpdateAfterBothFetched ==
    client.fn = "MovePage" =>
        /\ \A k \in Updates :
              /\ k = 3
              /\ client.wire[1] = [method |-> "GET", id |-> client.id, perPage |-> 0,
                                   collected |-> 0, version |-> 0]
              /\ client.wire[2] = [method |-> "GET", id |-> client.parent, perPage |-> 0,
                                   collected |-> 0, version |-> 0]
              /\ client.source \in Pages /\ client.target \in Pages
              /\ client.source.spaceID = client.target.spaceID
              /\ client.wire[k].id = client.id
              /\ client.wire[k].version = VersionNumber(client.source) + 1
        /\ (\E id \in {client.id, client.parent} :
                \A j \in 1..Len(id) : id[j] \in {" ", "\t", "\n", "\r"}) =>
              client.pc = "done" /\ client.err # "" /\ client.wire = <<>>
        /\ (client.pc = "done" /\ client.source \in Pages /\ client.target \in Pages
            /\ client.source.spaceID # client.target.spaceID) =>
              client.err # "" /\ Len(client.wire) = 2 /\ Updates = {}

\* a page at version 2 has been moved under a parent of its space: two GETs,
\* then the update with version 3
C19_MovedWithinSpace ==
    /\ client.fn = "MovePage"
    /\ client.pc = "done"
    /\ client.err = ""
    /\ client.source = [spaceID |-> "S", version |-> <<2>>]
    /\ client.target.spaceID = "S"
    /\ Len(client.wire) = 3
    /\ client.wire[3].method = "PUT"
    /\ client.wire[3].version = 3

----------------------------------------------------------------------------
(* C21: doubled and tripled escapes                                        *)

\* n backslashes stand at position i before a character of the class
EscapeAt(s, i, n, class) ==
    /\ i + n <= Len(s)
    /\ \A k \in 0..(n - 1) : s[i + k] = "\\"
    /\ \E c \in 1..Len(class) : s[i + n] = class[c]

\* s from position i on, each run of n backslashes before a character of the
\* class cut down to one backslash, read from left to right
RECURSIVE Collapsed(_, _, _, _)
Collapsed(s, i, n, class) ==
    LET hits == {j \in i..Len(s) : EscapeAt(s, j, n, class)}
        j == Least(hits)
    IN  IF hits = {} THEN From(s, i)
        ELSE SubSeq(s, i, j - 1) \o <<"\\", s[j + n]>> \o Collapsed(s, j + n + 1, n, class)

\* the text before the first fenced code block, the whole text without one
BeforeFenced(s) ==
    IF FencedRanges(s) = <<>> THEN s ELSE SubSeq(s, 1, FencedRanges(s)[1][1] - 1)

\* C21: in the text outside code blocks every tripled escape (three
\* backslashes and a character of the triple class) becomes one backslash
\* and the character, and after that every doubled escape (two backslashes
\* and a character of the double class) becomes one backslash and the
\* character; a tripled escape never ends as two backslashes and the
\* character.
C21_EscapesCollapsed ==
    Normalized =>
        /\ BeforeFenced(ret.escaped) =
               Collapsed(Collapsed(BeforeFenced(ret.checked), 1, 3, tripleEscapeChars),
                         1, 2, doubleEscapeChars)
        /\ \A i \in 1..Len(tripleEscapeChars) :
               ret.checked = <<"\\", "\\", "\\", tripleEscapeChars[i]>>
                   => ret.escaped = <<"\\", tripleEscapeChars[i]>>

\* a tripled escape was cut down to one backslash and the character
C21_TripledCollapsed ==
    /\ Normalized
    /\ ret.checked = <<"\\", "\\", "\\", "*">>
    /\ ret.escaped = <<"\\", "*">>

----------------------------------------------------------------------------
(* C22: paragraph tags                                                     *)

\* the paragraphs under node that are not the child of an item of a task
\* list
RECURSIVE StatedWrapped(_, _, _)
RECURSIVE StatedWrappedIn(_, _, _, _)
StatedWrapped(node, parent, grandparent) ==
    (IF /\ node.kind = "Paragraph"
        /\ ~(/\ parent # NoNode
             /\ parent.kind = "ListItem"
             /\ grandparent # NoNode
             /\ isTaskList(grandparent))
     THEN 1 ELSE 0)
    + StatedWrappedIn(node.kids, 1, node, parent)
StatedWrappedIn(kids, k, parent, grandparent) ==
    IF k > Len(kids) THEN 0
    ELSE StatedWrapped(kids[k], parent, grandparent)
         + StatedWrappedIn(kids, k + 1, parent, grandparent)

\* C22: the storage holds one <p> and one </p> for each Paragraph that is
\* not the child of an item of a task list, and none for a Paragraph that
\* is; the paragraphs of a plain list inside a task item are wrapped.
C22_ParagraphWrappedUnlessTask ==
    Rendered =>
        /\ Occurrences(ret.out, Tag("p")) = StatedWrapped(doc.ast, NoNode, NoNode)
        /\ Occurrences(ret.out, EndTag("p")) = StatedWrapped(doc.ast, NoNode, NoNode)
        /\ LastBlock(doc) = LoosePlainInTask.node =>
               Contains(ret.out, Tag("li") \o Tag("p") \o <<"b">> \o EndTag("p"))

\* a plain list with paragraphs was rendered inside a task item, whose own
\* text is not wrapped
C22_PlainListInTaskItem ==
    /\ Rendered
    /\ LastBlock(doc) = LoosePlainInTask.node
    /\ Contains(ret.out, Tag("ac:task-body") \o <<"a", "\n">> \o Tag("ul"))
    /\ Contains(ret.out, Tag("li") \o Tag("p") \o <<"c">> \o EndTag("p"))
    /\ CountKind(doc.ast, "Paragraph") = 2

----------------------------------------------------------------------------
(* C23: one list item per task                                             *)

\* the storage is one task list and nothing else
OneTaskList(s) ==
    /\ StartsAt(s, 1, Tag("ac:task-list"))
    /\ Occurrences(s, Tag("ac:task-list")) = 1
    /\ IndexFrom(s, 1, EndTag("ac:task-list")) = Len(s) - 3

\* the item stated for the <ac:task> that opens at i: the mark of its
\* trimmed status, then its trimmed body without a leading <p> and a
\* trailing </p>
StatedItem(s, i) ==
    LET a == IndexFrom(s, i, Tag("ac:task-status"))
        h == IndexFrom(s, a, EndTag("ac:task-status"))
        b == IndexFrom(s, h, Tag("ac:task-body"))
        e == IndexFrom(s, b, EndTag("ac:task-body"))
        status == TrimSpace(SubSeq(s, a + 3, h - 1))
        body == TrimSpace(SubSeq(s, b + 3, e - 1))
    IN  Tag("li")
        \o (IF status = <<"complete">> THEN <<"[", "x", "]", " ">> ELSE <<"[", " ", "]", " ">>)
        \o TrimSuffix(TrimPrefix(body, Tag("p")), EndTag("p"))
        \o EndTag("li") \o <<"\n">>

\* the items stated for the tasks that open at i or later, in their order
RECURSIVE StatedItems(_, _)
StatedItems(s, i) ==
    LET j == IndexFrom(s, i, Tag("ac:task"))
    IN  IF j = 0 THEN <<>> ELSE StatedItem(s, j) \o StatedItems(s, j + 3)

\* C23: for a task list the preprocessor writes one <ul> that holds one
\* <li> for each <ac:task> of the list, in the order of the tasks; the item
\* starts with [x] and a space when the trimmed status is complete and with
\* [ ] and a space otherwise, and holds the trimmed body without a leading
\* <p> and a trailing </p>.  An image in a body is rewritten afterwards.
C23_OneItemPerTask ==
    (call = "StorageToMarkdown" /\ OneTaskList(storage)) =>
        ret.processed =
            imageRewrite(Tag("ul") \o <<"\n">> \o StatedItems(storage, 1) \o EndTag("ul"))

----------------------------------------------------------------------------
(* C24: the parameters of a code macro                                     *)

IsLanguage(p) == p.name = "language"

\* C24: a code macro with a body or without one, with zero to three
\* parameters, the language first, in the middle, last or missing, is
\* rewritten to the block of its language parameters alone, and the intermediate HTML holds no name and no value of
\* another parameter and no parameter element.
C24_OnlyLanguageRead ==
    call = "StorageToMarkdown" =>
        \A nameLast \in BOOLEAN, ps \in ParamRecords,
           gap \in {<<>>, <<"\n">>}, body \in {<<"a">>, NoBody} :
            EndsWith(storage, EitherShape(nameLast, ps, gap, body)) =>
                /\ EndsWith(ret.processed, StatedBlock(SelectSeq(ps, IsLanguage), body))
                /\ \A i \in 1..Len(ret.processed) :
                       ret.processed[i] \notin
                           {"title", "T", "collapse", "linenumbers", "true", "ac:parameter"}

\* a macro whose language follows a title and a line-number parameter was
\* rewritten to a block of that language
C24_LanguageLastOfThree ==
    /\ call = "StorageToMarkdown"
    /\ storage = CodeMacroText(FALSE, <<Param("title", <<"T">>),
                                        Param("linenumbers", <<"true">>),
                                        Param("language", <<"go">>)>>, <<>>, <<"a">>)
    /\ ret.processed = <<"<", "pre", ">", "<", "code", " ", "class=", "\"", "language", "-",
                         "go", "\"", ">", "a", "<", "/", "code", ">", "<", "/", "pre", ">">>

----------------------------------------------------------------------------
(* C25: table cells inside rows                                            *)

\* at position i of s an element of the name is open: more of its opening
\* tags than of its closing tags stand before i
OpenBefore(s, i, name) ==
    Cardinality({j \in 1..(i - 1) : StartsAt(s, j, Tag(name))})
        > Cardinality({j \in 1..(i - 1) : StartsAt(s, j, EndTag(name))})

\* C25: every <th> and every <td> of the storage stands inside a <tr> that
\* stands inside <tbody> inside <table>, the cells of the header row too.
C25_CellsInsideRows ==
    Rendered =>
        \A i \in 1..(Len(ret.out) - 1) :
            (ret.out[i] = "<" /\ ret.out[i + 1] \in {"th", "td"}) =>
                /\ OpenBefore(ret.out, i, "tr")
                /\ OpenBefore(ret.out, i, "tbody")
                /\ OpenBefore(ret.out, i, "table")

----------------------------------------------------------------------------
(* C26: markup of the source                                               *)

\* s from position i on without its CDATA sections; a section runs from
\* <![CDATA[ to the first ]]> after it
RECURSIVE OutsideCData(_, _)
OutsideCData(s, i) ==
    LET o == IndexFrom(s, i, CDataOpen)
        c == IF o = 0 THEN 0 ELSE IndexFrom(s, o + Len(CDataOpen), CDataClose)
    IN  IF o = 0 THEN From(s, i)
        ELSE IF c = 0 THEN SubSeq(s, i, o - 1)
        ELSE SubSeq(s, i, o - 1) \o OutsideCData(s, c + Len(CDataClose))

\* the texts of the Text nodes under a node, those of code spans left out
RECURSIVE TextsUnder(_)
TextsUnder(node) ==
    IF node.kind = "CodeSpan" THEN {}
    ELSE (IF node.kind = "Text" THEN {node.t} ELSE {})
         \cup UNION {TextsUnder(node.kids[k]) : k \in 1..Len(node.kids)}

IsMarkup(l) == l \in {"<", ">", "&"}

\* the text between each opening literal and the next closing literal holds
\* no <, no > and no & that is not the start of an entity
EscapedBetween(s, open, close) ==
    \A i \in 1..Len(s) :
        StartsAt(s, i, open) =>
            LET from == i + Len(open)
                to == IndexFrom(s, from, close)
            IN  /\ to # 0
                /\ \A j \in from..(to - 1) :
                       /\ s[j] \notin {"<", ">"}
                       /\ s[j] = "&" =>
                              /\ j + 2 < to
                              /\ s[j + 1] \in {"lt", "gt", "amp", "quot"}
                              /\ s[j + 2] = ";"

\* C26: outside CDATA sections the storage holds no text of the source with
\* a <, > or & as it was written: the text of a Text node is not there
\* unescaped, and the content of a code span and the language of a fenced
\* block hold no <, no > and no & that does not start an entity.
C26_SourceMarkupEscaped ==
    Rendered =>
        LET live == OutsideCData(ret.out, 1)
        IN  /\ \A t \in TextsUnder(doc.ast) :
                   (\E k \in 1..Len(t) : IsMarkup(t[k])) => ~Contains(live, t)
            /\ EscapedBetween(live, Tag("code"), EndTag("code"))
            /\ EscapedBetween(live, NameLanguage \o <<">">>, EndTag("ac:parameter"))

----------------------------------------------------------------------------
(* C27: the end of a CDATA section                                         *)

\* C27: in the storage no ]]> stands between a <![CDATA[ and the
\* ]]></ac:plain-text-body> that closes its macro body, also when the code
\* of the block holds ]]>.
C27_NoCDataEndInBody ==
    Rendered =>
        \A i \in 1..Len(ret.out) :
            StartsAt(ret.out, i, CDataOpen) =>
                LET from == i + Len(CDataOpen)
                IN  IndexFrom(ret.out, from, CDataClose)
                        = IndexFrom(ret.out, from, PlainBodyClose)

----------------------------------------------------------------------------
(* C28: a task list inside a task item                                     *)

\* the list is a task list with an item that holds a task list
TaskListInTaskItem(list) ==
    /\ list.kind = "List"
    /\ isTaskList(list)
    /\ \E c \in 1..Len(list.kids) :
          \E g \in 1..Len(list.kids[c].kids) :
              list.kids[c].kids[g].kind = "List" /\ isTaskList(list.kids[c].kids[g])

\* C28: for the storage that MarkdownToStorage wrote for a task list inside
\* a task item, the intermediate HTML of the preprocessor holds no
\* ac:task-list, ac:task, ac:task-status or ac:task-body tag and holds one
\* list item that starts with [ ] or [x] for each task of both levels.
C28_NestedTasksRewritten ==
    (call = "StorageToMarkdown" /\ doc # NoDoc /\ TaskListInTaskItem(LastBlock(doc))) =>
        /\ \A i \in 1..Len(ret.processed) :
               ret.processed[i] \notin
                   {"ac:task-list", "ac:task", "ac:task-status", "ac:task-body"}
        /\ Occurrences(ret.processed, Tag("li") \o <<"[">>)
               = CountKind(doc.ast, "TaskCheckBox")

----------------------------------------------------------------------------
(* C29: the tags of the renderer are well nested                           *)

\* s from position i on, without the text between each opening literal and
\* the next closing literal after it
RECURSIVE Excised(_, _, _, _)
Excised(s, i, open, close) ==
    LET o == IndexFrom(s, i, open)
        c == IF o = 0 THEN 0 ELSE IndexFrom(s, o + Len(open), close)
    IN  IF o = 0 \/ c = 0 THEN From(s, i)
        ELSE SubSeq(s, i, o + Len(open) - 1) \o close
             \o Excised(s, c + Len(close), open, close)

\* the storage without the text that is copied from the source: the bodies
\* of code macros, the content of code spans, the language of a fence
RendererTags(s) ==
    Excised(Excised(Excised(s, 1, CDataOpen, PlainBodyClose), 1, Tag("code"), EndTag("code")),
            1, NameLanguage \o <<">">>, EndTag("ac:parameter"))

\* from position i on every closing tag closes the element opened last,
\* given the elements that are open, and none stays open; comments, CDATA
\* marks and tags that end in /> open nothing
RECURSIVE WellNested(_, _, _)
WellNested(s, i, open) ==
    LET j == IndexFrom(s, i, <<"<">>)
        g == SkipNot(s, j, ">")
    IN  IF j = 0 THEN open = <<>>
        ELSE IF s[j + 1] = "/"
             THEN /\ open # <<>>
                  /\ open[Len(open)] = s[j + 2]
                  /\ WellNested(s, g + 1, SubSeq(open, 1, Len(open) - 1))
        ELSE IF s[j + 1] = "!" \/ s[g - 1] = "/" THEN WellNested(s, g + 1, open)
        ELSE WellNested(s, g + 1, Append(open, s[j + 1]))

\* C29: the tags the renderer writes are well nested: each closing tag has
\* the name of the element opened last and not yet closed, and no element
\* stays open; a list opened as ac:task-list, ul or ol and an item opened as
\* ac:task with ac:task-body or as li are closed under the same names.
C29_TagsWellNested ==
    Rendered => WellNested(RendererTags(ret.out), 1, <<>>)

\* a task list inside an item of a plain list was rendered: each list was
\* closed under its own name
C29_TaskListInPlainClosed ==
    /\ Rendered
    /\ LastBlock(doc) = NestedIn("none", "unchecked").node
    /\ Contains(ret.out, EndTag("ac:task-body") \o <<"\n">> \o EndTag("ac:task") \o <<"\n">>
                         \o EndTag("ac:task-list") \o <<"\n">> \o EndTag("li") \o <<"\n">>
                         \o EndTag("ul"))

----------------------------------------------------------------------------
(* C30: fixOverEscaping only deletes backslashes                           *)

IsNoBackslash(l) == l # "\\"

WithoutBackslashes(s) == SelectSeq(s, IsNoBackslash)

\* the block that stands at <<first, end>> of the text before is in the text
\* after as it was, behind the same text but for backslashes
CopiedInPlace(before, after, match) ==
    \E p \in 1..Len(after) :
        /\ p + (match[2] - match[1]) - 1 <= Len(after)
        /\ SubSeq(after, p, p + (match[2] - match[1]) - 1)
               = SubSeq(before, match[1], match[2] - 1)
        /\ WithoutBackslashes(SubSeq(after, 1, p - 1))
               = WithoutBackslashes(SubSeq(before, 1, match[1] - 1))
        /\ Backslashes(SubSeq(after, 1, p - 1))
               <= Backslashes(SubSeq(before, 1, match[1] - 1))

\* C30: the result of fixOverEscaping is its input with some backslashes
\* removed: without their backslashes the two texts are the same and the
\* result has no backslash more; each fenced code block that codeBlockRegex
\* finds in the input is in the result unchanged and in its place.
C30_OnlyBackslashesDeleted ==
    Normalized =>
        /\ WithoutBackslashes(ret.escaped) = WithoutBackslashes(ret.checked)
        /\ Backslashes(ret.escaped) <= Backslashes(ret.checked)
        /\ \A k \in 1..Len(CodeBlocks(ret.checked)) :
               CopiedInPlace(ret.checked, ret.escaped, CodeBlocks(ret.checked)[k])

\* backslashes were deleted in a text that holds a code block
C30_TextAfterBlockFixed ==
    /\ Normalized
    /\ Len(CodeBlocks(ret.checked)) = 1
    /\ Backslashes(ret.escaped) < Backslashes(ret.checked)

====
